---- MODULE Spec2Model ----
(***************************************************************************)
(* DraftApply render proxy: the token-gated gateway of                     *)
(* render-proxy/recipe/index.js (register, generate, cv/upload), its       *)
(* install tokens, its two rate limiters and the bundled recipe.           *)
(*                                                                         *)
(* Time is the server clock in whole seconds.  Bulk texts (CV, prompts,    *)
(* upstream bodies) are records [id, len]; short labels (the question)     *)
(* are sequences of one-character strings.                                 *)
(***************************************************************************)
EXTENDS Integers, Sequences, FiniteSets, TLC

VARIABLES
    now,            \* Date.now() in seconds
    TOKEN_SECRET,   \* TRUE iff process.env.TOKEN_SECRET is set
    GROQ_API_KEY,   \* TRUE iff process.env.GROQ_API_KEY is set
    recipe,         \* the recipe module loaded at startup
    worker,         \* the extension's background worker: storage and calls
    page,           \* the extension's content script on one page
    probe,          \* a prompt builder applied to one input
    fallback,       \* the backend's provider chain and one run over it
    registerStore,  \* registerLimiter's store: key -> [totalHits, resetTime]
    generateStore,  \* generateLimiter's store: key -> [totalHits, resetTime]
    windowCalls,    \* per limiter and key: calls per route in the key's hour
    issued,         \* tokens handed out by /api/register (held by clients)
    reqs,           \* the requests in flight, one per connection slot
    received,       \* number of requests received so far
    ticks           \* number of clock steps taken so far

vars == <<now, TOKEN_SECRET, GROQ_API_KEY, fallback, recipe, worker, page, probe, registerStore, generateStore,
          windowCalls, issued, reqs, received, ticks>>

----------------------------------------------------------------------------
(* Bounds of the model *)

MaxRequests == 2
MaxTicks == 1
MaxOver == 2

Slots == {1}

----------------------------------------------------------------------------
(* Program constants *)

TokenTtl == 60 * 60 * 24 * 90
WindowSec == 60 * 60
RegisterLimit == 20
GenerateLimit == 60
IatSkew == 60
MinJtiLen == 8
JtiHexLen == 32
SigB64Len == 43

MinCvLen == 5
MinPromptLen == 10
MaxSystemLen == 30000
MaxUserLen == 120000
DefaultTemperature == 7
ExtractTemperature == 1
RecipeErrorCap == 200
UpstreamDetailsCap == 400
CvCapExtract == 2500
CvCapGeneral == 6000
JobDescriptionCap == 4000
RequirementsCap == 8

\* Clock steps: a second, a limiter window, a token lifetime, and one more.
Deltas == {1, WindowSec, TokenTtl, TokenTtl + 1}

----------------------------------------------------------------------------
(* JavaScript values *)

\* A value is a record tagged by t: "undefined", "string", "number", "array",
\* or "other" (a truthy value that is neither a string nor an array, such as
\* the number 5 or an object).
Undef == [t |-> "undefined"]
Other == [t |-> "other"]
Num(n) == [t |-> "number", v |-> n]
Text(id, n) == [t |-> "string", id |-> id, len |-> n]

IsString(x) == x.t = "string"
IsNumber(x) == x.t = "number"

----------------------------------------------------------------------------
(* Short strings, as sequences of characters, and the regular expressions   *)
(* the label code applies to them                                           *)

Chars(str) == [i \in 1..Len(str) |-> SubSeq(str, i, i)]

RECURSIVE Join(_)
Join(cs) == IF cs = << >> THEN "" ELSE Head(cs) \o Join(Tail(cs))

UpperCase == Chars("ABCDEFGHIJKLMNOPQRSTUVWXYZ")
LowerCase == Chars("abcdefghijklmnopqrstuvwxyz")

\* c.toLowerCase(), for the /i flag.
Lower(c) ==
    IF \E i \in 1..26 : UpperCase[i] = c
    THEN LowerCase[CHOOSE i \in 1..26 : UpperCase[i] = c]
    ELSE c

\* \s
IsWs(c) == c \in {" ", "\t", "\n", "\r"}

Max(S) == CHOOSE x \in S : \A y \in S : y <= x

\* Regular expressions: a literal (matched case-insensitively), a character
\* class, \s* and \s+, an optional group, an alternation, a concatenation.
Lit(str) == [op |-> "lit", w |-> Chars(str)]
Class(str) == [op |-> "class", cs |-> {Chars(str)[i] : i \in 1..Len(str)}]
Ws0 == [op |-> "ws*"]
Ws1 == [op |-> "ws+"]
Opt(r) == [op |-> "opt", rs |-> <<r>>]
Alt(rs) == [op |-> "alt", rs |-> rs]
Cat(rs) == [op |-> "cat", rs |-> rs]
Words(strs) == Alt([i \in 1..Len(strs) |-> Lit(strs[i])])

\* Ends(re, s, i): every position j such that re matches s[i..j-1].
RECURSIVE Ends(_, _, _)
RECURSIVE EndsCat(_, _, _, _)
Ends(re, s, i) ==
    CASE re.op = "lit" ->
            IF /\ i + Len(re.w) - 1 <= Len(s)
               /\ \A k \in 1..Len(re.w) : Lower(s[i + k - 1]) = re.w[k]
            THEN {i + Len(re.w)} ELSE {}
      [] re.op = "class" ->
            IF i <= Len(s) /\ s[i] \in re.cs THEN {i + 1} ELSE {}
      [] re.op = "ws*" ->
            {j \in i..(Len(s) + 1) : \A k \in i..(j - 1) : IsWs(s[k])}
      [] re.op = "ws+" ->
            {j \in (i + 1)..(Len(s) + 1) : \A k \in i..(j - 1) : IsWs(s[k])}
      [] re.op = "opt" -> {i} \cup Ends(re.rs[1], s, i)
      [] re.op = "alt" -> UNION {Ends(re.rs[k], s, i) : k \in 1..Len(re.rs)}
      [] re.op = "cat" -> EndsCat(re.rs, 1, s, {i})
EndsCat(rs, k, s, from) ==
    IF k > Len(rs) THEN from
    ELSE EndsCat(rs, k + 1, s, UNION {Ends(rs[k], s, i) : i \in from})

\* /^re/.test(s) and /^re$/.test(s)
TestPrefix(re, s) == Ends(re, s, 1) # {}
TestWhole(re, s) == (Len(s) + 1) \in Ends(re, s, 1)

\* s.replace(/^re/, ''): every quantifier of the prefixes used here is greedy
\* and is followed by a non-space literal or by nothing, so the match taken is
\* the longest one.
StripPrefix(re, s) ==
    IF Ends(re, s, 1) = {} THEN s ELSE SubSeq(s, Max(Ends(re, s, 1)), Len(s))

\* s.trim()
RECURSIVE TrimStart(_)
TrimStart(s) == IF s # << >> /\ IsWs(Head(s)) THEN TrimStart(Tail(s)) ELSE s
RECURSIVE TrimEnd(_)
TrimEnd(s) ==
    IF s # << >> /\ IsWs(s[Len(s)]) THEN TrimEnd(SubSeq(s, 1, Len(s) - 1)) ELSE s
Trim(s) == TrimEnd(TrimStart(s))

\* s.replace(/[*:?∗✱]+$/g, '')
Markers == {"*", ":", "?"}
RECURSIVE StripMarkers(_)
StripMarkers(s) ==
    IF s # << >> /\ s[Len(s)] \in Markers
    THEN StripMarkers(SubSeq(s, 1, Len(s) - 1)) ELSE s

PleasePrefix ==
    Cat(<<Lit("please"), Ws1,
          Words(<<"enter", "provide", "input", "type", "specify">>), Ws1,
          Opt(Cat(<<Lit("your"), Ws1>>))>>)
EnterPrefix == Cat(<<Lit("enter"), Ws1, Opt(Cat(<<Lit("your"), Ws1>>))>>)
YourPrefix == Cat(<<Lit("your"), Ws1>>)

\* cleanFieldLabel(raw), on the characters of raw.
cleanFieldLabel(raw) ==
    Trim(StripPrefix(YourPrefix,
         StripPrefix(EnterPrefix,
         StripPrefix(PleasePrefix,
         StripMarkers(Trim(raw))))))

\* The dataPatterns of isDataExtractionQuestion: those ending in $ ...
WholePatterns ==
    { Cat(<<Opt(Cat(<<Lit("full"), Ws0>>)), Lit("name")>>),
      Cat(<<Words(<<"first", "last", "middle", "legal", "preferred">>), Ws0,
            Lit("name")>>),
      Cat(<<Lit("name"), Ws0,
            Opt(Words(<<"first", "last", "middle", "legal">>))>>),
      Lit("location"),
      Cat(<<Opt(Cat(<<Lit("current"), Ws0>>)), Opt(Cat(<<Lit("job"), Ws0>>)),
            Lit("title")>>),
      Cat(<<Opt(Cat(<<Lit("current"), Ws0>>)), Lit("company")>>),
      Cat(<<Opt(Cat(<<Lit("current"), Ws0>>)), Lit("employer")>>),
      Lit("nationality"),
      Cat(<<Lit("visa"), Ws0, Lit("status")>>),
      Cat(<<Lit("work"), Ws0, Lit("authori"), Class("sz"), Lit("ation")>>),
      Cat(<<Lit("notice"), Ws0, Lit("period")>>),
      Lit("availability"),
      Cat(<<Lit("start"), Ws0, Lit("date")>>) }

\* ... and those anchored at the start only.
PrefixPatterns ==
    { Lit("linkedin"), Words(<<"email", "e-mail">>), Lit("phone"),
      Words(<<"mobile", "cell">>), Lit("address"),
      Words(<<"city", "state", "zip", "postal", "country">>),
      Lit("website"),
      Cat(<<Opt(Cat(<<Lit("personal"), Ws0>>)), Lit("portfolio")>>),
      Lit("github"), Lit("twitter"),
      Cat(<<Opt(Cat(<<Lit("your"), Ws0>>)),
            Opt(Cat(<<Lit("date"), Ws0, Lit("of"), Ws0>>)), Lit("birth")>>),
      Lit("salary") }

\* isDataExtractionQuestion(question), on the characters of question.
isDataExtractionQuestion(question) ==
    LET q == cleanFieldLabel(question)
    IN  \/ \E p \in WholePatterns : TestWhole(p, q)
        \/ \E p \in PrefixPatterns : TestPrefix(p, q)

----------------------------------------------------------------------------
(* Install tokens *)

\* base64url(JSON.stringify(obj)): the payload segment.  A segment is
\* [enc |-> "json", val |-> v] when it is the encoding of the JSON text of v,
\* and [enc |-> "raw", id |-> i] when it decodes to text that is not JSON.
base64url(val) == [enc |-> "json", val |-> val]

\* base64url(HMAC-SHA256(TOKEN_SECRET, payloadB64)): 43 characters, a
\* different value for every different segment.
HmacB64(payloadB64) == [mac |-> payloadB64, len |-> SigB64Len]

signToken(payloadObj) ==
    LET payloadB64 == base64url([json |-> "object", obj |-> payloadObj])
    IN  [kind |-> "token", payloadB64 |-> payloadB64, sigB64 |-> HmacB64(payloadB64)]

\* crypto.timingSafeEqual on the bytes of the two strings: it throws a
\* RangeError when the byte lengths differ.
timingSafeEqual(a, b) ==
    IF a.len # b.len THEN "RangeError" ELSE IF a = b THEN "equal" ELSE "differ"

\* JSON.parse(Buffer.from(seg, 'base64').toString('utf8')): the parsed value,
\* or [json |-> "SyntaxError"] when JSON.parse throws.
ParsePayload(payloadB64) ==
    IF payloadB64.enc = "json" THEN payloadB64.val ELSE [json |-> "SyntaxError"]

\* Expired with the comparison of line 197 made non-strict: a token would
\* already be refused at the very second of its exp.
ExpiredAtExp(payload, t) == ~IsNumber(payload.exp) \/ payload.exp.v <= t

\* The checks of lines 196-201 on a parsed payload object, at server time t.
Expired(payload, t) == ~IsNumber(payload.exp) \/ payload.exp.v < t

BadIat(payload, t) == ~IsNumber(payload.iat) \/ payload.iat.v > t + IatSkew

BadJti(payload) == ~IsString(payload.jti) \/ payload.jti.len < MinJtiLen

\* Lines 196-201 on whatever JSON.parse returned: reading a property of null
\* throws a TypeError; a property of a number or string is undefined.
CheckClaims(parsed, t) ==
    CASE parsed.json = "null" -> [threw |-> "TypeError"]
      [] parsed.json = "primitive" -> [ok |-> FALSE, reason |-> "expired"]
      [] OTHER ->
            IF Expired(parsed.obj, t) THEN [ok |-> FALSE, reason |-> "expired"]
            ELSE IF BadIat(parsed.obj, t) THEN [ok |-> FALSE, reason |-> "iat"]
            ELSE IF BadJti(parsed.obj) THEN [ok |-> FALSE, reason |-> "jti"]
            ELSE [ok |-> TRUE, payload |-> parsed.obj]

\* The signature comparison of lines 186-187.
SigCheck(payloadB64, sigB64) == timingSafeEqual(HmacB64(payloadB64), sigB64)

\* verifyToken(token) at server time t.  token is [kind |-> "null"] (no bearer
\* token), [kind |-> "parts", n |-> k] (a string with k # 2 dot-separated
\* parts) or [kind |-> "token", payloadB64, sigB64].  The result is
\* {ok, reason}, {ok, payload}, or [threw |-> e] when the call raises e.
verifyToken(token, t) ==
    IF token.kind = "null" THEN [ok |-> FALSE, reason |-> "missing"]
    ELSE IF token.kind = "parts" THEN [ok |-> FALSE, reason |-> "format"]
    ELSE LET cmp == SigCheck(token.payloadB64, token.sigB64) IN
         IF cmp = "RangeError" THEN [threw |-> "RangeError"]
         ELSE IF cmp = "differ" THEN [ok |-> FALSE, reason |-> "sig"]
         ELSE LET parsed == ParsePayload(token.payloadB64) IN
              IF parsed.json = "SyntaxError" THEN [ok |-> FALSE, reason |-> "payload"]
              ELSE CheckClaims(parsed, t)

Threw(v) == "threw" \in DOMAIN v /\ v.threw # ""

\* getBearerToken(req): the token of an "Authorization: Bearer <token>"
\* header, else null.
getBearerToken(auth) ==
    IF auth.scheme = "Bearer" THEN auth.token ELSE [kind |-> "null"]

----------------------------------------------------------------------------
(* Rate limiters: rateLimit({windowMs, limit}) with the default memory store *)

NoClient == [totalHits |-> 0, resetTime |-> 0]

\* store.increment(key) at time t: a key never seen, or whose window has
\* ended (resetTime <= now), starts a new window; then totalHits++.
Increment(store, key, t) ==
    LET old == IF key \in DOMAIN store THEN store[key] ELSE NoClient
        cur == IF old.resetTime <= t
               THEN [totalHits |-> 0, resetTime |-> t + WindowSec]
               ELSE old
    IN  [k \in DOMAIN store \cup {key} |->
            IF k = key THEN [cur EXCEPT !.totalHits = @ + 1] ELSE store[k]]

\* OverLimit refusing the call that reaches the limit, not the one past it.
OverLimitAtLimit(store, key, limit) == store[key].totalHits >= limit

\* The middleware's verdict after the increment: over the limit is a 429.
OverLimit(store, key, limit) == store[key].totalHits > limit

\* keyGenerator of generateLimiter: `${token}:${req.ip}`.
generateKey(auth, ip) == <<getBearerToken(auth), ip>>

\* Default keyGenerator of registerLimiter: req.ip.
registerKey(ip) == ip

\* The hits a key has in the window that is open at time t.
Hits(store, key, t) ==
    IF key \in DOMAIN store /\ store[key].resetTime > t
    THEN store[key].totalHits ELSE 0

\* Bookkeeping beside the stores: the calls a key has made on each route
\* within the hour that its first call opened.
NoCalls == [opened |-> 0, register |-> 0, generate |-> 0, upload |-> 0]

CallsOf(calls, key, t) ==
    IF key \in DOMAIN calls /\ t < calls[key].opened + WindowSec
    THEN calls[key] ELSE [NoCalls EXCEPT !.opened = t]

CountCall(calls, key, route, t) ==
    [k \in DOMAIN calls \cup {key} |->
        IF k = key THEN [CallsOf(calls, key, t) EXCEPT ![route] = @ + 1]
        ELSE calls[k]]

----------------------------------------------------------------------------
(* The bundled recipe: buildPrompts (lines 64-121) *)

Min(a, b) == IF a < b THEN a ELSE b

\* A string literal: its id is its content.
Str(str) == [t |-> "string", id |-> str, len |-> Len(str)]

\* JavaScript truthiness of a value: undefined and '' are falsy.
Truthy(x) == x.t # "undefined" /\ ~(x.t = "string" /\ x.len = 0)

\* x || dflt
OrElse(x, dflt) == IF Truthy(x) THEN x ELSE dflt

\* A slice that cuts nothing.
SliceWhole(x, n) == x

\* text.slice(0, n): the first n characters of the same text.
Slice(x, n) == [x EXCEPT !.len = Min(x.len, n)]

\* `${x}`: the length of x as a string (a non-string stands for the number 5).
ShownLen(x) == IF IsString(x) THEN x.len ELSE 1

\* Lengths of the literal parts of the two templates.
ExtractSystemLen == 383
GeneralSystemLen == 263
ExtractFrameLen == 4 + 11 + 38
CvFrameLen == 6 + 2
JobHeaderLen == 19
PositionFrameLen == 10 + 1
CompanyFrameLen == 9 + 1
JobFooterLen == 2
RequirementsFrameLen == 18 + 1
RequirementFrameLen == 2 + 1
QuestionFrameLen == 12 + 2 + 20 + 28

\* The lengthSpec table, with its default.
LengthSpec(length) ==
    IF length = Str("short") THEN "50-80 words"
    ELSE IF length = Str("long") THEN "200-300 words"
    ELSE IF IsString(length) /\ length.id = "constructor"
    THEN "function Object() { [native code] }"
    ELSE "100-150 words"

RECURSIVE SumLens(_)
SumLens(items) ==
    IF items = << >> THEN 0
    ELSE RequirementFrameLen + ShownLen(Head(items)) + SumLens(Tail(items))

FirstN(items, n) == SubSeq(items, 1, Min(Len(items), n))

\* The "## Job Description" block, present when jobDescription is truthy.
JobBlockLen(input) ==
    IF ~Truthy(input.jobDescription) THEN 0
    ELSE JobHeaderLen
         + (IF Truthy(input.jobTitle)
            THEN PositionFrameLen + ShownLen(input.jobTitle) ELSE 0)
         + (IF Truthy(input.company)
            THEN CompanyFrameLen + ShownLen(input.company) ELSE 0)
         + Slice(input.jobDescription, JobDescriptionCap).len + JobFooterLen
         + (IF input.requirements.t = "array" /\ Len(input.requirements.items) > 0
            THEN RequirementsFrameLen
                 + SumLens(FirstN(input.requirements.items, RequirementsCap))
            ELSE 0)

\* buildPrompts(input): {systemPrompt, userPrompt, temperature}, or
\* [threw |-> TRUE, message] when it raises (jobDescription.slice on a truthy
\* value that is not a string).
buildPrompts(input) ==
    LET q == Chars(input.question.id) IN
    IF isDataExtractionQuestion(q)
    THEN LET cleanQ == cleanFieldLabel(q)
             cv == Slice(input.cvText, CvCapExtract)
         IN  [systemPrompt |-> [t |-> "string", id |-> "extract-system",
                                len |-> ExtractSystemLen],
              userPrompt |-> [t |-> "string", id |-> "extract-user",
                              len |-> ExtractFrameLen + cv.len + Len(cleanQ),
                              cv |-> cv, ask |-> Join(cleanQ)],
              temperature |-> Num(ExtractTemperature)]
    ELSE IF Truthy(input.jobDescription) /\ ~IsString(input.jobDescription)
    THEN [threw |-> "TypeError", message |-> Text("message", 40)]
    ELSE LET cv == Slice(input.cvText, CvCapGeneral)
             spec == LengthSpec(input.length)
         IN  [systemPrompt |-> [t |-> "string", id |-> "general-system",
                                len |-> GeneralSystemLen],
              userPrompt |-> [t |-> "string", id |-> "general-user",
                              len |-> CvFrameLen + cv.len + JobBlockLen(input)
                                      + QuestionFrameLen + input.question.len
                                      + Len(spec),
                              cv |-> cv, ask |-> input.question.id,
                              target |-> spec],
              temperature |-> Num(DefaultTemperature)]

----------------------------------------------------------------------------
(* Requests *)

NoToken == [kind |-> "null"]
NoAuth == [scheme |-> "none"]
NoBody == [shape |-> "none"]
NoCall == [made |-> FALSE]

\* One request: where it is in its route's middleware chain (pc), what it
\* carried, the response written to it (status 0: none yet), and a record of
\* what was done on its behalf.
IdleReq ==
    [pc |-> "idle", route |-> "none", ip |-> "none", auth |-> NoAuth,
     body |-> NoBody, status |-> 0, error |-> "", reason |-> "",
     details |-> Undef, answer |-> Undef, token |-> NoToken,
     responses |-> 0, authCalls |-> 0, authAt |-> 0, limiterHits |-> 0, hitNo |-> 0,
     calls |-> NoCalls, recipeCalls |-> 0, recipeInput |-> NoBody,
     built |-> [threw |-> ""], fetchCalls |-> 0,
     sent |-> NoCall, reply |-> [kind |-> "none"]]

\* res.status(code).json({error, ...}) followed by return.
Respond(r, code, err) ==
    [r EXCEPT !.pc = "done", !.status = code, !.error = err,
              !.responses = @ + 1]

\* A throw inside a synchronous middleware: Express passes it to its default
\* error handler, which answers 500.
ExpressError(r) == Respond(r, 500, "Internal Server Error")

Routes == {"register", "generate", "upload"}

FirstMiddleware(route) ==
    IF route = "register" THEN "registerLimiter" ELSE "authRequired"

----------------------------------------------------------------------------
(* Authorization headers a client can send *)

JtiOf(n, i) == [t |-> "string", len |-> n, id |-> i]

Claims(exp, iat, jti) == [ver |-> 1, iat |-> iat, exp |-> exp, jti |-> jti]

\* Payload objects around every boundary of lines 197-199 at time t: the
\* accepted extremes, then one or two fields out of bounds or of a wrong type.
CraftedClaims(t) ==
    { Claims(Num(t), Num(t + IatSkew), JtiOf(MinJtiLen, 0)),
      Claims(Num(t - 1), Num(t), JtiOf(JtiHexLen, 0)),
      Claims(Other, Num(t), JtiOf(JtiHexLen, 0)),
      Claims(Num(t), Num(t + IatSkew + 1), JtiOf(JtiHexLen, 0)),
      Claims(Num(t), Other, JtiOf(JtiHexLen, 0)),
      Claims(Num(t), Num(t), JtiOf(MinJtiLen - 1, 0)),
      Claims(Num(t), Num(t), Other),
      Claims(Num(t - 1), Num(t + IatSkew + 1), JtiOf(MinJtiLen - 1, 0)),
      Claims(Num(t), Num(t + IatSkew + 1), JtiOf(MinJtiLen - 1, 0)) }

\* Payload segments: encodings of objects, of JSON null, of a JSON number,
\* and a segment that does not decode to JSON.
CraftedSegments(t) ==
    { base64url([json |-> "object", obj |-> c]) : c \in CraftedClaims(t) }
    \cup { base64url([json |-> "null"]), base64url([json |-> "primitive"]),
           [enc |-> "raw", id |-> 1] }

Junk == [enc |-> "junk", id |-> 1]

\* Signature segments that are not the HMAC of the payload they come with:
\* of the right length, one character short, and empty.
BadSigs == { [mac |-> Junk, len |-> n] : n \in {SigB64Len, SigB64Len - 1, 0} }

\* An issued token with one segment replaced by a different value.
Tampered(tok, t) ==
    { [tok EXCEPT !.payloadB64 = p] :
          p \in CraftedSegments(t) \ {tok.payloadB64} }
    \cup { [tok EXCEPT !.sigB64 = g] :
          g \in (BadSigs \cup {HmacB64(p) : p \in CraftedSegments(t)})
                \ {tok.sigB64} }

BearerTokens(t) ==
    issued
    \cup UNION { Tampered(tok, t) : tok \in issued }
    \cup { [kind |-> "parts", n |-> k] : k \in {1, 3} }
    \cup { [kind |-> "token", payloadB64 |-> p, sigB64 |-> HmacB64(p)] :
              p \in CraftedSegments(t) }
    \cup { [kind |-> "token", payloadB64 |-> p, sigB64 |-> g] :
              p \in CraftedSegments(t), g \in BadSigs }

AuthHeaders(t) ==
    { NoAuth, [scheme |-> "Basic"] }
    \cup { [scheme |-> "Bearer", token |-> tok] : tok \in BearerTokens(t) }

----------------------------------------------------------------------------
(* Initial state: the process after startup *)

RecipeModules == {"bundled", "custom"}

\* chrome.storage.local holds no installToken: getInstallToken returns null.
NoInstallToken == 0

\* One CALL_API message as handleAPICall sees it: where the async function
\* is suspended, what it holds in `token`, what it has sent and received, and
\* what the message listener finally passed to sendResponse.  `requestId`
\* is the id the call registered its AbortController under, `aborted` the
\* state of controller.signal, `cancelled` whether a CANCEL_API or CANCEL_ALL
\* message aborted it.
IdleCall ==
    [pc |-> "idle", phase |-> 0, payload |-> 0, token |-> NoInstallToken,
     aborted |-> FALSE, sent |-> << >>, statuses |-> << >>, clears |-> 0,
     registers |-> << >>, outcome |-> "", message |-> "", sinks |-> {},
     requestId |-> 0, cancelled |-> FALSE]

\* No CANCEL_API or CANCEL_ALL message has been answered.
NoCancel == [type |-> "none", requestId |-> 0, cancelled |-> FALSE]

\* The calls the service worker may be handling at the same moment.
Calls == {1, 2}

\* The worker before any message: empty storage, no pending request.
\* `build` tells which handleAPICall the worker runs: background.js holds
\* one with "agent log" posts to 127.0.0.1:7243 and one without.
\* pendingRequests holds the request ids that have an AbortController
\* registered (the controller under an id is the one of the call with that
\* id); lastCancel is the last cancel message and the
\* reply it was given.
IdleWorker ==
    [installToken |-> NoInstallToken, installTokenExpiresAt |-> "null",
     minted |-> 0, started |-> 0, build |-> "plain",
     calls |-> [c \in Calls |-> IdleCall],
     pendingRequests |-> {}, lastCancel |-> NoCancel]

\* Calls of generateAnswer on one page in one run.
MaxGenerations == 3

Generations == 1 .. MaxGenerations

\* What a text box or this.lastAnswer holds, and which generateAnswer call
\* put it there (0: the page itself or cancelGeneration).
Shown(by, text) == [by |-> by, text |-> text]

\* The content script with its modal open and nothing requested yet.
\* `stale` marks a call of generateAnswer whose request was cancelled, or
\* superseded by the request of a newer call, while it was waiting for its
\* reply; `late` collects what such a call wrote afterwards.
\* `loadingHidden` is loading.hidden of the spinner; `cancelled` marks a call
\* during which cancelGeneration ran; `dropped` collects the calls whose
\* result was discarded by the stale check.
IdlePage ==
    [currentRequestId |-> 0, output |-> Shown(0, ""), lastAnswer |-> Shown(0, ""),
     loadingHidden |-> TRUE, started |-> 0,
     gens |-> [g \in Generations |->
                  [pc |-> "idle", stale |-> FALSE, cancelled |-> FALSE]],
     late |-> {}, dropped |-> {}]

\* No prompt builder is being looked at.
NoProbe == [by |-> "none"]

\* One run of generateWithFallback over a chain: where it is suspended,
\* the providers it has called and what they answered, the errors array,
\* and what it returned or threw.
IdleFallback(chain) ==
    [pc |-> "idle", chain |-> chain, called |-> << >>, replies |-> << >>,
     errors |-> << >>, result |-> [answer |-> "", provider |-> ""], thrown |-> ""]

\* The backend is not looked at.
NoFallback == IdleFallback(<< >>)

Init ==
    /\ now = 0
    /\ TOKEN_SECRET \in BOOLEAN
    /\ GROQ_API_KEY \in BOOLEAN
    /\ recipe \in RecipeModules
    /\ registerStore = << >>
    /\ generateStore = << >>
    /\ windowCalls = [register |-> << >>, generate |-> << >>]
    /\ issued = {}
    /\ reqs = [s \in Slots |-> IdleReq]
    /\ received = 0
    /\ ticks = 0
    /\ worker = IdleWorker
    /\ page = IdlePage
    /\ probe = NoProbe
    /\ fallback = NoFallback

----------------------------------------------------------------------------
(* Actions common to the routes *)

\* express.json({ limit: '1mb' }) (line 165) runs before every route: a JSON
\* body that does not parse is answered 400 and one over the limit 413 by
\* the default error handler, and no route middleware runs.
BodyParses == {"parsed", "malformed", "too large"}

ParseBody(r, parse) ==
    CASE parse = "malformed" -> Respond(r, 400, "Bad Request")
      [] parse = "too large" -> Respond(r, 413, "Payload Too Large")
      [] OTHER -> [r EXCEPT !.pc = FirstMiddleware(r.route)]

\* A request arrives on a free connection.
Accept(s, route, ip) ==
    /\ reqs[s].pc = "idle"
    /\ \E parse \in BodyParses :
          reqs' = [reqs EXCEPT ![s] =
                    ParseBody([IdleReq EXCEPT !.route = route, !.ip = ip], parse)]
    /\ UNCHANGED <<now, TOKEN_SECRET, GROQ_API_KEY, fallback, recipe, worker, page, probe, registerStore,
                   generateStore, windowCalls, issued, ticks>>

Receive(s, routes, ips) ==
    /\ received < MaxRequests
    /\ \E route \in routes, ip \in ips : Accept(s, route, ip)
    /\ received' = received + 1

\* authRequired (lines 228-235) on request r carrying header auth, at time t.
HandleAuth(r, auth, t) ==
    LET v == verifyToken(getBearerToken(auth), t) IN
    IF ~TOKEN_SECRET THEN Respond(r, 500, "Server misconfigured")
    ELSE IF Threw(v) THEN ExpressError(r)
    ELSE IF ~v.ok
         THEN [Respond(r, 401, "Unauthorized") EXCEPT !.reason = v.reason]
    ELSE [r EXCEPT !.pc = "generateLimiter"]

authRequired(s, headers) ==
    /\ reqs[s].pc = "authRequired"
    /\ \E auth \in headers :
          reqs' = [reqs EXCEPT ![s] =
                    HandleAuth([@ EXCEPT !.auth = auth, !.authAt = now,
                                         !.authCalls = @ + 1], auth, now)]
    /\ UNCHANGED <<now, TOKEN_SECRET, GROQ_API_KEY, fallback, recipe, worker, page, probe, registerStore,
                   generateStore, windowCalls, issued, received, ticks>>

\* generateLimiter (lines 217-226), on /api/generate and /api/cv/upload.
generateLimiter(s) ==
    /\ reqs[s].pc = "generateLimiter"
    /\ LET r == reqs[s]
           key == generateKey(r.auth, r.ip)
           store == Increment(generateStore, key, now)
           calls == CountCall(windowCalls.generate, key, r.route, now)
           counted == [r EXCEPT !.limiterHits = @ + 1,
                                !.hitNo = store[key].totalHits,
                                !.calls = calls[key]]
       IN  /\ generateStore' = store
           /\ windowCalls' = [windowCalls EXCEPT !.generate = calls]
           /\ reqs' = [reqs EXCEPT ![s] =
                 IF OverLimit(store, key, GenerateLimit)
                 THEN Respond(counted, 429, "Too many requests")
                 ELSE [counted EXCEPT !.pc = r.route]]
    /\ UNCHANGED <<now, TOKEN_SECRET, GROQ_API_KEY, fallback, recipe, worker, page, probe, registerStore,
                   issued, received, ticks>>

\* registerLimiter (lines 210-215), on /api/register.
registerLimiter(s) ==
    /\ reqs[s].pc = "registerLimiter"
    /\ LET r == reqs[s]
           key == registerKey(r.ip)
           store == Increment(registerStore, key, now)
           calls == CountCall(windowCalls.register, key, r.route, now)
           counted == [r EXCEPT !.limiterHits = @ + 1,
                                !.hitNo = store[key].totalHits,
                                !.calls = calls[key]]
       IN  /\ registerStore' = store
           /\ windowCalls' = [windowCalls EXCEPT !.register = calls]
           /\ reqs' = [reqs EXCEPT ![s] =
                 IF OverLimit(store, key, RegisterLimit)
                 THEN Respond(counted, 429, "Too many requests")
                 ELSE [counted EXCEPT !.pc = "register"]]
    /\ UNCHANGED <<now, TOKEN_SECRET, GROQ_API_KEY, fallback, recipe, worker, page, probe, generateStore,
                   issued, received, ticks>>

\* POST /api/register (lines 241-255); nonce stands for the 16 random bytes.
IssueToken(t, nonce) ==
    signToken(Claims(Num(t + TokenTtl), Num(t), JtiOf(JtiHexLen, nonce)))

register(s, nonces) ==
    /\ reqs[s].pc = "register"
    /\ IF ~TOKEN_SECRET
       THEN /\ reqs' = [reqs EXCEPT ![s] = Respond(@, 500, "Server misconfigured")]
            /\ UNCHANGED issued
       ELSE \E nonce \in nonces :
            /\ reqs' = [reqs EXCEPT ![s] =
                          [Respond(@, 200, "") EXCEPT !.token = IssueToken(now, nonce)]]
            /\ issued' = issued \cup {IssueToken(now, nonce)}
    /\ UNCHANGED <<now, TOKEN_SECRET, GROQ_API_KEY, fallback, recipe, worker, page, probe, registerStore,
                   generateStore, windowCalls, received, ticks>>

----------------------------------------------------------------------------
(* POST /api/generate (lines 271-352) *)

IsNonEmptyString(x) == IsString(x) /\ x.len > 0

\* The object the handler passes to recipe.buildPrompts (lines 289-299).
RecipeInput(body) ==
    [question |-> Str(Join(cleanFieldLabel(Chars(body.question.id)))),
     length |-> OrElse(body.length, Str("medium")),
     cvText |-> body.cvText,
     jobTitle |-> OrElse(body.jobTitle, Undef),
     company |-> OrElse(body.company, Undef),
     jobDescription |-> OrElse(body.jobDescription, Undef),
     requirements |-> IF body.requirements.t = "array"
                      THEN body.requirements ELSE Undef]

\* TemperatureOr putting the default in place of every value.
TemperatureOrDefault(x) == Num(DefaultTemperature)

\* typeof x === 'number' ? x : 0.7
TemperatureOr(x) == IF IsNumber(x) THEN x ELSE Num(DefaultTemperature)

\* Lines 315-324: 0 when the pair may be sent, else the status of the refusal.
\* ValidateSizes without the ceiling test of lines 322-324.
ValidateSizesNoCeiling(systemPrompt, userPrompt) ==
    IF ~IsString(systemPrompt) \/ systemPrompt.len < MinPromptLen THEN 400
    ELSE IF ~IsString(userPrompt) \/ userPrompt.len < MinPromptLen THEN 400
    ELSE 0

ValidateSizes(systemPrompt, userPrompt) ==
    IF ~IsString(systemPrompt) \/ systemPrompt.len < MinPromptLen THEN 400
    ELSE IF ~IsString(userPrompt) \/ userPrompt.len < MinPromptLen THEN 400
    ELSE IF systemPrompt.len > MaxSystemLen \/ userPrompt.len > MaxUserLen THEN 413
    ELSE 0

SizeError(systemPrompt, userPrompt) ==
    IF ~IsString(systemPrompt) \/ systemPrompt.len < MinPromptLen
    THEN "System prompt too short"
    ELSE IF ~IsString(userPrompt) \/ userPrompt.len < MinPromptLen
    THEN "User prompt too short"
    ELSE "Prompt too large"

\* PayloadFormat with the two tests of lines 281 and 306 in the other order.
PayloadFormatLegacyFirst(body) ==
    IF IsString(body.systemPrompt) /\ IsString(body.userPrompt) THEN "legacy"
    ELSE IF IsNonEmptyString(body.question) THEN "structured"
    ELSE "none"

\* Lines 281-313: which payload format the body is taken for.
PayloadFormat(body) ==
    IF IsNonEmptyString(body.question) THEN "structured"
    ELSE IF IsString(body.systemPrompt) /\ IsString(body.userPrompt) THEN "legacy"
    ELSE "none"

\* CvTextMissing with the minimum one character lower.
CvTextMissingBelowFour(body) ==
    ~IsString(body.cvText) \/ body.cvText.len < MinCvLen - 1

\* Lines 283-285.
CvTextMissing(body) == ~IsString(body.cvText) \/ body.cvText.len < MinCvLen

\* The fetch of lines 326-340.
Fetch(r, systemPrompt, userPrompt, temperature) ==
    [r EXCEPT !.pc = "fetching", !.fetchCalls = @ + 1,
              !.sent = [made |-> TRUE, systemPrompt |-> systemPrompt,
                        userPrompt |-> userPrompt, temperature |-> temperature]]

\* Lines 315-340 on the prompts of either path.
ValidateAndFetch(r, systemPrompt, userPrompt, temperature) ==
    IF ValidateSizes(systemPrompt, userPrompt) # 0
    THEN Respond(r, ValidateSizes(systemPrompt, userPrompt),
                 SizeError(systemPrompt, userPrompt))
    ELSE Fetch(r, systemPrompt, userPrompt, temperature)

\* Lines 281-305: the structured path; result is what recipe.buildPrompts
\* returned (or raised) for this input.
Structured(r, body, result) ==
    IF CvTextMissing(body) THEN Respond(r, 400, "Missing or empty cvText")
    ELSE LET called == [r EXCEPT !.recipeCalls = @ + 1,
                                 !.recipeInput = RecipeInput(body),
                                 !.built = result]
         IN  IF Threw(result)
             THEN [Respond(called, 500, "Recipe error") EXCEPT
                      !.details = Slice(result.message, RecipeErrorCap)]
             ELSE ValidateAndFetch(called, result.systemPrompt, result.userPrompt,
                                   TemperatureOr(result.temperature))

\* Lines 306-310: the legacy path.
Legacy(r, body) ==
    ValidateAndFetch(r, body.systemPrompt, body.userPrompt,
                     TemperatureOr(body.temperature))

\* The handler up to its first await.
HandleGenerate(r, body, result) ==
    IF ~GROQ_API_KEY THEN Respond(r, 500, "Server misconfigured")
    ELSE CASE PayloadFormat(body) = "structured" -> Structured(r, body, result)
           [] PayloadFormat(body) = "legacy" -> Legacy(r, body)
           [] OTHER -> Respond(r, 400, "Missing prompt data")

\* What a custom recipe module may return: any of these, whatever the input.
PromptValues(id, max) ==
    {Undef, Other}
    \cup { Text(id, n) : n \in {MinPromptLen - 1, MinPromptLen, max, max + 1} }

ErrorMessages == { Text("message", n) : n \in {RecipeErrorCap, RecipeErrorCap + 1} }

\* The TypeErrors raised inside the try block when the module exports no
\* buildPrompts, and when buildPrompts returns undefined.
TypeErrorMessages ==
    { Text("recipe.buildPrompts is not a function", 37),
      Text("Cannot read properties of undefined (reading 'systemPrompt')", 59) }

CustomResults ==
    { [systemPrompt |-> a, userPrompt |-> b, temperature |-> Undef] :
          a \in PromptValues("sys", MaxSystemLen),
          b \in PromptValues("usr", MaxUserLen) }
    \cup { [systemPrompt |-> Text("sys", MinPromptLen),
            userPrompt |-> Text("usr", MinPromptLen), temperature |-> Num(2)] }
    \cup { [threw |-> "Error", message |-> m] : m \in ErrorMessages }
    \cup { [threw |-> "TypeError", message |-> m] : m \in TypeErrorMessages }

\* The results recipe.buildPrompts can give for a body.
RecipeResults(body) ==
    IF recipe = "bundled" /\ PayloadFormat(body) = "structured" /\ ~CvTextMissing(body)
    THEN {buildPrompts(RecipeInput(body))}
    ELSE IF recipe = "custom" /\ PayloadFormat(body) = "structured" /\ ~CvTextMissing(body)
    THEN CustomResults
    ELSE {[threw |-> ""]}

\* Request bodies.
BodyOf(q, cv, length, job, sys, usr, temp) ==
    [shape |-> "json", question |-> q, cvText |-> cv, length |-> length,
     jobTitle |-> job.jobTitle, company |-> job.company,
     jobDescription |-> job.jobDescription, requirements |-> job.requirements,
     systemPrompt |-> sys, userPrompt |-> usr, temperature |-> temp]

NoJob == [jobTitle |-> Undef, company |-> Undef, jobDescription |-> Undef,
          requirements |-> Undef]
FullJob == [jobTitle |-> Text("title", 20), company |-> Text("company", 10),
            jobDescription |-> Text("jd", JobDescriptionCap + 1000),
            requirements |-> [t |-> "array",
                              items |-> [i \in 1..(RequirementsCap + 1) |->
                                            Text("req", 30)]]]
OddJob == [jobTitle |-> Other, company |-> Str(""), jobDescription |-> Other,
           requirements |-> Other]

Questions == {"Email*:", "LinkedIn", "Why do you want to work here?", "*"}

CvTexts == {Undef, Other} \cup { Text("cv", n) : n \in {MinCvLen - 1, MinCvLen, CvCapGeneral + 1000} }

GoodCv == Text("cv", CvCapGeneral + 1000)
GoodSys == Text("sys", MinPromptLen)
GoodUsr == Text("usr", MinPromptLen)

StructuredBodies ==
    { BodyOf(Str(q), cv, Undef, NoJob, Undef, Undef, Undef) :
          q \in Questions, cv \in CvTexts }
    \cup { BodyOf(Str(q), GoodCv, len, job, Undef, Undef, Undef) :
          q \in Questions, len \in {Str("short"), Str("huge")},
          job \in {FullJob, OddJob} }
    \cup { BodyOf(Str("Email*:"), cv, Undef, NoJob, GoodSys, GoodUsr, Num(2)) :
          cv \in {Undef, GoodCv} }

UnstructuredBodies ==
    { BodyOf(Undef, Undef, Undef, NoJob, a, b, Undef) :
          a \in PromptValues("sys", MaxSystemLen),
          b \in PromptValues("usr", MaxUserLen) }
    \cup { BodyOf(q, cv, Undef, NoJob, a, a, temp) :
          q \in {Undef, Other, Str("")}, cv \in {Undef, GoodCv},
          a \in {Undef, GoodSys}, temp \in {Undef, Num(2), Other} }

Bodies == StructuredBodies \cup UnstructuredBodies

\* POST /api/generate, from the handler's start to its first await.
generate(s, bodies) ==
    /\ reqs[s].pc = "generate"
    /\ \E body \in bodies : \E result \in RecipeResults(body) :
          reqs' = [reqs EXCEPT ![s] =
                    HandleGenerate([@ EXCEPT !.body = body], body, result)]
    /\ UNCHANGED <<now, TOKEN_SECRET, GROQ_API_KEY, fallback, recipe, worker, page, probe, registerStore,
                   generateStore, windowCalls, issued, received, ticks>>

\* What the model backend can do with a call.
UpstreamBodies == { Text("upstream", n) : n \in {0, UpstreamDetailsCap, UpstreamDetailsCap + 1} }

Answers == {Undef, Str(""), Text("answer", 50), Other}

Replies ==
    { [kind |-> "error", status |-> st, text |-> b] :
          st \in {500}, b \in UpstreamBodies }
    \cup { [kind |-> "json", status |-> 200, answer |-> a] : a \in Answers }
    \cup { [kind |-> "notjson", status |-> 200] }

\* HandleReply refusing only an absent answer, not an empty one.
HandleReplyOnlyUndefined(r, reply) ==
    CASE reply.kind = "error" ->
            [Respond(r, 502, "Upstream error") EXCEPT
                !.details = Slice(reply.text, UpstreamDetailsCap)]
      [] reply.kind = "json" ->
            IF reply.answer = Undef THEN Respond(r, 502, "No answer from provider")
            ELSE [Respond(r, 200, "") EXCEPT !.answer = reply.answer]
      [] OTHER -> [r EXCEPT !.pc = "rejected"]

\* Lines 342-351: the backend has replied.  A 2xx body that is not JSON makes
\* response.json() reject.
HandleReply(r, reply) ==
    CASE reply.kind = "error" ->
            [Respond(r, 502, "Upstream error") EXCEPT
                !.details = Slice(reply.text, UpstreamDetailsCap)]
      [] reply.kind = "json" ->
            IF ~Truthy(reply.answer) THEN Respond(r, 502, "No answer from provider")
            ELSE [Respond(r, 200, "") EXCEPT !.answer = reply.answer]
      [] OTHER -> [r EXCEPT !.pc = "rejected"]

fetchReplied(s, replies) ==
    /\ reqs[s].pc = "fetching"
    /\ \E reply \in replies :
          reqs' = [reqs EXCEPT ![s] = HandleReply([@ EXCEPT !.reply = reply], reply)]
    /\ UNCHANGED <<now, TOKEN_SECRET, GROQ_API_KEY, fallback, recipe, worker, page, probe, registerStore,
                   generateStore, windowCalls, issued, received, ticks>>

\* The fetch itself fails (network error): the awaited promise rejects.
fetchFailed(s) ==
    /\ reqs[s].pc = "fetching"
    /\ reqs' = [reqs EXCEPT ![s] = [@ EXCEPT !.pc = "rejected",
                                             !.reply = [kind |-> "failed"]]]
    /\ UNCHANGED <<now, TOKEN_SECRET, GROQ_API_KEY, fallback, recipe, worker, page, probe, registerStore,
                   generateStore, windowCalls, issued, received, ticks>>

\* The async handler's promise has rejected and nothing in the handler catches
\* it.  Express 4 ignores the promise an async handler returns: no response is
\* ever written.  Express 5 passes the rejection to the default error handler.
handlerRejected(s) ==
    /\ reqs[s].pc = "rejected"
    /\ \/ reqs' = [reqs EXCEPT ![s] = [@ EXCEPT !.pc = "abandoned"]]
       \/ reqs' = [reqs EXCEPT ![s] = ExpressError(@)]
    /\ UNCHANGED <<now, TOKEN_SECRET, GROQ_API_KEY, fallback, recipe, worker, page, probe, registerStore,
                   generateStore, windowCalls, issued, received, ticks>>

----------------------------------------------------------------------------
(* POST /api/cv/upload (lines 355-393) *)

MaxFileSize == 5 * 1024 * 1024

\* text.replace(/\r\n/g, '\n')
RECURSIVE UnixLines(_)
UnixLines(s) ==
    IF s = << >> THEN << >>
    ELSE IF Len(s) >= 2 /\ s[1] = "\r" /\ s[2] = "\n"
         THEN <<"\n">> \o UnixLines(SubSeq(s, 3, Len(s)))
         ELSE <<Head(s)>> \o UnixLines(Tail(s))

\* text.replace(/\n{3,}/g, '\n\n')
RECURSIVE CollapseBlank(_)
CollapseBlank(s) ==
    IF s = << >> THEN << >>
    ELSE IF Len(s) >= 3 /\ s[1] = "\n" /\ s[2] = "\n" /\ s[3] = "\n"
         THEN CollapseBlank(Tail(s))
         ELSE <<Head(s)>> \o CollapseBlank(Tail(s))

\* Lines 379-382.
NormalizeText(s) == Trim(CollapseBlank(UnixLines(s)))

\* What upload.single('cv') finds in the request: no file, a file over the
\* size limit, or a file with a mimetype whose parser succeeds or throws.
Mimetypes == {"application/pdf",
              "application/vnd.openxmlformats-officedocument.wordprocessingml.document",
              "text/plain", "image/png"}

FileTexts == {"a\r\n\r\n\r\n\r\nb\n", " a\n\n\nb\n\nc ", ""}

Files ==
    { [present |-> FALSE] }
    \cup { [present |-> TRUE, size |-> MaxFileSize + 1, mimetype |-> "text/plain",
            text |-> "", parses |-> TRUE] }
    \cup { [present |-> TRUE, size |-> Len(x), mimetype |-> m, text |-> x,
            parses |-> ok] :
              m \in Mimetypes, x \in FileTexts, ok \in BOOLEAN }

HandleUpload(r, file) ==
    IF ~file.present THEN Respond(r, 400, "No file provided")
    ELSE IF file.size > MaxFileSize THEN ExpressError(r)
    ELSE IF file.mimetype = "image/png" THEN Respond(r, 400, "Unsupported file type")
    ELSE IF file.mimetype # "text/plain" /\ ~file.parses
         THEN Respond(r, 500, "Failed to process CV file")
    ELSE [Respond(r, 200, "") EXCEPT
             !.answer = Str(Join(NormalizeText(Chars(file.text))))]

upload(s, files) ==
    /\ reqs[s].pc = "upload"
    /\ \E file \in files : reqs' = [reqs EXCEPT ![s] = HandleUpload(@, file)]
    /\ UNCHANGED <<now, TOKEN_SECRET, GROQ_API_KEY, fallback, recipe, worker, page, probe, registerStore,
                   generateStore, windowCalls, issued, received, ticks>>

\* Close keeping the request's body in the process after the response.
CloseKeepingBody(s) ==
    /\ reqs[s].pc \in {"done", "abandoned"}
    /\ reqs' = [reqs EXCEPT ![s] = [IdleReq EXCEPT !.body = reqs[s].body]]
    /\ UNCHANGED <<now, TOKEN_SECRET, GROQ_API_KEY, fallback, recipe, worker, page, probe, registerStore,
                   generateStore, windowCalls, issued, received, ticks>>

\* The response has been delivered and the connection is free again.
Close(s) ==
    /\ reqs[s].pc \in {"done", "abandoned"}
    /\ reqs' = [reqs EXCEPT ![s] = IdleReq]
    /\ UNCHANGED <<now, TOKEN_SECRET, GROQ_API_KEY, fallback, recipe, worker, page, probe, registerStore,
                   generateStore, windowCalls, issued, received, ticks>>

\* The clock advances, while the process is idle or awaits I/O.
Tick(deltas) ==
    /\ ticks < MaxTicks
    /\ \A s \in Slots : reqs[s].pc \in {"idle", "fetching", "upload"}
    /\ \E d \in deltas : now' = now + d
    /\ ticks' = ticks + 1
    /\ UNCHANGED <<TOKEN_SECRET, GROQ_API_KEY, fallback, recipe, worker, page, probe, registerStore,
                   generateStore, windowCalls, issued, reqs, received>>

----------------------------------------------------------------------------
(* The gateway under every kind of request body and backend reply *)

\* A header that passes authRequired at time t without a prior registration.
ValidAuth(t) ==
    [scheme |-> "Bearer",
     token |-> signToken(Claims(Num(t), Num(t + IatSkew), JtiOf(MinJtiLen, 0)))]

FewHeaders ==
    {NoAuth, ValidAuth(now)} \cup {[scheme |-> "Bearer", token |-> k] : k \in issued}

Next ==
    \/ Receive(1, Routes, {"ip1"})
    \/ authRequired(1, FewHeaders)
    \/ generateLimiter(1)
    \/ registerLimiter(1)
    \/ register(1, {1})
    \/ generate(1, Bodies)
    \/ fetchReplied(1, Replies)
    \/ fetchFailed(1)
    \/ handlerRejected(1)
    \/ upload(1, Files)
    \/ Close(1)

Spec == Init /\ [][Next]_vars

----------------------------------------------------------------------------
(* The gateway under every kind of Authorization header, as time passes *)

PlainBodies ==
    { BodyOf(Undef, Undef, Undef, NoJob, GoodSys, GoodUsr, Undef),
      BodyOf(Str("Email*:"), GoodCv, Undef, NoJob, Undef, Undef, Undef) }
PlainReplies == { [kind |-> "json", status |-> 200, answer |-> Text("answer", 50)] }
PlainFiles == { [present |-> TRUE, size |-> 2, mimetype |-> "text/plain",
                 text |-> "cv", parses |-> TRUE] }

NextAuth ==
    \/ Receive(1, Routes, {"ip1"})
    \/ authRequired(1, AuthHeaders(now))
    \/ generateLimiter(1)
    \/ registerLimiter(1)
    \/ register(1, {1, 2})
    \/ generate(1, PlainBodies)
    \/ fetchReplied(1, PlainReplies)
    \/ upload(1, PlainFiles)
    \/ Close(1)
    \/ Tick(Deltas)

SpecAuth == Init /\ [][NextAuth]_vars

----------------------------------------------------------------------------
(* The gateway under load: one installation calling up to and past the limits *)

\* The installation keeps the first token it was issued.
ClientHeaders ==
    { [scheme |-> "Bearer", token |-> tok] : tok \in
        { k \in issued : \A o \in issued :
            k.payloadB64.val.obj.iat.v <= o.payloadB64.val.obj.iat.v } }

\* The installation registers before its first gated call, and makes gated
\* calls only if it registered once; the load stops MaxOver calls past a
\* limit, and uploads are rare.
UnderCap(route, ip) ==
    IF route = "register"
    THEN /\ Hits(registerStore, registerKey(ip), now) < RegisterLimit + MaxOver
         /\ DOMAIN generateStore = {}
    ELSE \E h \in ClientHeaders :
            /\ \A k \in DOMAIN registerStore : registerStore[k].totalHits <= 1
            /\ Hits(generateStore, generateKey(h, ip), now) < GenerateLimit + MaxOver
            /\ route = "upload" =>
                  CallsOf(windowCalls.generate, generateKey(h, ip), now).upload < MaxOver

ReceiveUnderCap(s, routes, ips) ==
    /\ \E route \in routes, ip \in ips : UnderCap(route, ip) /\ Accept(s, route, ip)
    /\ UNCHANGED received

LegacyBodies == { BodyOf(Undef, Undef, Undef, NoJob, GoodSys, GoodUsr, Undef) }

NextLimiter ==
    \/ ReceiveUnderCap(1, Routes, {"ip1"})
    \/ authRequired(1, ClientHeaders)
    \/ generateLimiter(1)
    \/ registerLimiter(1)
    \/ register(1, {1})
    \/ generate(1, LegacyBodies)
    \/ fetchReplied(1, PlainReplies)
    \/ upload(1, PlainFiles)
    \/ Close(1)
    \/ Tick({WindowSec})

SpecLimiter == Init /\ [][NextLimiter]_vars

----------------------------------------------------------------------------
(* The gateway under one token presented from several client addresses *)

ClientIps == {"ip1", "ip2"}

\* The addresses the holder of the token uses before it turns to ip.
Earlier(ip) == IF ip = "ip2" THEN {"ip1"} ELSE {}

\* The token is registered once; then /api/generate is called with it from
\* one address, up to MaxOver calls past the limit, and from the next
\* address once the one before is being refused.
UnderCapPerIp(route, ip) ==
    IF route = "register"
    THEN DOMAIN registerStore = {}
    ELSE \E h \in ClientHeaders :
            /\ Hits(generateStore, generateKey(h, ip), now) < GenerateLimit + MaxOver
            /\ \A e \in Earlier(ip) :
                  Hits(generateStore, generateKey(h, e), now) > GenerateLimit

ReceivePerIp(s, routes, ips) ==
    /\ \E route \in routes, ip \in ips : UnderCapPerIp(route, ip) /\ Accept(s, route, ip)
    /\ UNCHANGED received

NextAmplify ==
    \/ ReceivePerIp(1, {"register", "generate"}, ClientIps)
    \/ authRequired(1, ClientHeaders)
    \/ generateLimiter(1)
    \/ registerLimiter(1)
    \/ register(1, {1})
    \/ generate(1, LegacyBodies)
    \/ fetchReplied(1, PlainReplies)
    \/ Close(1)
    \/ Tick({WindowSec})

SpecAmplify == Init /\ [][NextAmplify]_vars

----------------------------------------------------------------------------
(* The extension's background worker (src/extension-ready/background.js):  *)
(* handleAPICall and the install-token helpers.  The proxy is the           *)
(* environment here: its replies are drawn from small sets.  Each await of  *)
(* the async function is a point where another call, a cancellation or the  *)
(* two-minute timer may run.                                               *)

\* CALL_API messages the worker receives in one run.
MaxCalls == 2

\* The payload of the CALL_API message a call slot receives.
Payloads(c) == {c}

\* getInstallToken: the stored token, or null when none is stored or the
\* stored one expires within 24 hours.
getInstallToken(w) ==
    IF w.installToken = NoInstallToken THEN NoInstallToken
    ELSE IF w.installTokenExpiresAt = "soon" THEN NoInstallToken
    ELSE w.installToken

\* setInstallToken(token, expiresAt)
setInstallToken(w, token, expiresAt) ==
    [w EXCEPT !.installToken = token, !.installTokenExpiresAt = expiresAt]

\* clearInstallToken()
clearInstallToken(w) ==
    [w EXCEPT !.installToken = NoInstallToken, !.installTokenExpiresAt = "null"]

\* The promise of handleAPICall settles and the listener calls sendResponse.
Settle(call, outcome, message) ==
    [call EXCEPT !.pc = "done", !.outcome = outcome, !.message = message]

\* doRequest(): one fetch of /api/generate carrying `token` and the payload.
\* A fetch on an aborted signal rejects at once and sends nothing.
doRequest(call, token) ==
    IF call.aborted
    THEN Settle([call EXCEPT !.token = token], "error", "Cancelled")
    ELSE [call EXCEPT !.pc = "posting", !.token = token,
                      !.sent = Append(@, [token |-> token, payload |-> call.payload])]

Attempts(call) == Len(call.sent)

\* A finally block that leaves the entry in the registry.
ReleaseNothing(w) == w

\* finally { clearTimeout(timeout); pendingRequests.delete(effectiveRequestId); }
\* of the calls that have just settled.
Release(w) ==
    [w EXCEPT !.pendingRequests =
        @ \ {w.calls[c].requestId : c \in {d \in Calls : w.calls[d].pc = "done"}}]

\* What /api/register may answer: a token (with an expiry far away, within
\* a day, or none), a non-2xx status, a 2xx body without a token, or no
\* answer at all.
RegisterReplies ==
    {[kind |-> "token", expiresAt |-> e] : e \in {"later", "soon", "null"}}
        \cup {[kind |-> k, expiresAt |-> "null"] : k \in {"refused", "notoken", "failed"}}

\* What /api/generate may answer.
Statuses == {200, 401, 429, 500, 502}

GenerateReplies == [status : Statuses, body : {"json", "other"}]

Ok(status) == status >= 200 /\ status <= 299

\* if (response.status === 401) on the first response only: the retry
\* branch sits before the second doRequest, not around it.
ReauthorizeEvery401(call, reply) == reply.status = 401

Reauthorize(call, reply) == reply.status = 401 /\ call.phase = 1

\* The "agent log" posts: what handleAPICall sends to the ingest endpoint,
\* added to what the call has sent there so far.
Ingest(w, call, data) ==
    [call EXCEPT !.sinks = IF w.build = "agent log" THEN @ \cup data ELSE @]

\* message.requestId of the CALL_API message a call slot receives: the
\* content script draws a fresh UUID for every message, so the calls that
\* are under way at one moment have different ids.
RequestIdOf(c) == c

\* chrome.runtime.onMessage, CALL_API: handleAPICall starts and suspends on
\* its first await.
CallApi(c, payloads) ==
    /\ worker.calls[c].pc \in {"idle", "done"}
    /\ worker.started < MaxCalls
    /\ \E p \in payloads :
        LET requestId == RequestIdOf(c) IN
        worker' = [worker EXCEPT !.started = @ + 1,
                       !.pendingRequests = @ \cup {requestId},
                       !.calls[c] = Ingest(worker,
                                           [IdleCall EXCEPT !.pc = "getToken",
                                                            !.phase = 1, !.payload = p,
                                                            !.requestId = requestId],
                                           {"payload.question", "payload.cvText.length"})]
    /\ UNCHANGED <<now, TOKEN_SECRET, GROQ_API_KEY, fallback, recipe, page, probe, registerStore,
                   generateStore, windowCalls, issued, reqs, received, ticks>>

\* ensureInstallToken up to its fetch: a usable stored token goes straight
\* into doRequest, otherwise /api/register is called.
ensureInstallToken(c) ==
    /\ worker.calls[c].pc = "getToken"
    /\ LET call == worker.calls[c]
           existing == getInstallToken(worker)
       IN worker' = Release([worker EXCEPT !.calls[c] =
                        IF existing # NoInstallToken THEN doRequest(call, existing)
                        ELSE [call EXCEPT !.pc = "registering",
                                          !.registers = Append(@, call.phase)]])
    /\ UNCHANGED <<now, TOKEN_SECRET, GROQ_API_KEY, fallback, recipe, page, probe, registerStore,
                   generateStore, windowCalls, issued, reqs, received, ticks>>

\* ensureInstallToken after its fetch: a refusal or a body without a token
\* throws; a token is stored and used for the request that follows.
registerReplied(c, replies) ==
    /\ worker.calls[c].pc = "registering"
    /\ \E reply \in replies :
        LET call == worker.calls[c]
            token == worker.minted + 1
        IN IF reply.kind = "token"
           THEN worker' = Release([setInstallToken(worker, token, reply.expiresAt)
                               EXCEPT !.minted = token,
                                      !.calls[c] = doRequest(call, token)])
           ELSE worker' = Release([worker EXCEPT !.calls[c] =
                               Settle(call, "error",
                                      IF reply.kind = "failed" THEN "Failed to fetch"
                                      ELSE "Register failed")])
    /\ UNCHANGED <<now, TOKEN_SECRET, GROQ_API_KEY, fallback, recipe, page, probe, registerStore,
                   generateStore, windowCalls, issued, reqs, received, ticks>>

\* handleAPICall after a doRequest: the first 401 clears the stored token
\* and goes back for a new one; any other non-2xx status throws its
\* message; a 2xx body is the result.
generateReplied(c, replies) ==
    /\ worker.calls[c].pc = "posting"
    /\ \E reply \in replies :
        LET call == [worker.calls[c] EXCEPT !.statuses = Append(@, reply.status)]
        IN IF Reauthorize(call, reply)
           THEN worker' = [clearInstallToken(worker) EXCEPT !.calls[c] =
                               [call EXCEPT !.pc = "getToken", !.phase = @ + 1,
                                            !.clears = @ + 1]]
           ELSE worker' = Release([worker EXCEPT !.calls[c] =
                               IF ~Ok(reply.status)
                               THEN Settle(Ingest(worker, call, {"response.status", "error"}),
                                           "error",
                                           IF reply.body = "json" THEN "error.error"
                                           ELSE "Proxy error")
                               ELSE IF reply.body = "json"
                               THEN Settle(Ingest(worker, call,
                                                  {"result.answer.slice(0, 120)",
                                                   "result.answer.length"}),
                                           "result", "")
                               ELSE Settle(call, "error", "SyntaxError")])
    /\ UNCHANGED <<now, TOKEN_SECRET, GROQ_API_KEY, fallback, recipe, page, probe, registerStore,
                   generateStore, windowCalls, issued, reqs, received, ticks>>

\* The fetch of /api/generate rejects: the proxy cannot be reached.
generateFailed(c) ==
    /\ worker.calls[c].pc = "posting"
    /\ worker' = Release([worker EXCEPT !.calls[c] = Settle(@, "error", "Failed to fetch")])
    /\ UNCHANGED <<now, TOKEN_SECRET, GROQ_API_KEY, fallback, recipe, page, probe, registerStore,
                   generateStore, windowCalls, issued, reqs, received, ticks>>

\* controller.abort() on the controller of a call: a pending fetch of
\* /api/generate rejects with AbortError, which handleAPICall rethrows as
\* 'Cancelled'; the register fetch carries no signal and goes on.
Abort(call) ==
    IF call.aborted \/ call.pc \in {"idle", "done"} THEN call
    ELSE IF call.pc = "posting"
         THEN Settle([call EXCEPT !.aborted = TRUE], "error", "Cancelled")
    ELSE [call EXCEPT !.aborted = TRUE]

\* controller.abort(), from CANCEL_API or from the 120 s timer.
abort(c) ==
    /\ worker.calls[c].pc \in {"getToken", "registering", "posting"}
    /\ ~worker.calls[c].aborted
    /\ worker' = Release([worker EXCEPT !.calls[c] = Abort(@)])
    /\ UNCHANGED <<now, TOKEN_SECRET, GROQ_API_KEY, fallback, recipe, page, probe, registerStore,
                   generateStore, windowCalls, issued, reqs, received, ticks>>

\* controller.abort() by a cancel message.
Cancel(call) == [Abort(call) EXCEPT !.cancelled = TRUE]

\* The calls whose controller sits under id: those that registered it and
\* have not settled.
Holders(w, id) ==
    {c \in Calls : w.calls[c].requestId = id /\ w.calls[c].pc \notin {"idle", "done"}}

\* pendingRequests.delete(all entries), as CANCEL_API would do if it
\* cleared the registry.
DeleteAll(registry, id) == {}

\* pendingRequests.delete(id)
Delete(registry, id) == registry \ {id}

\* onMessage, CANCEL_API: the controller under message.requestId, if there
\* is one, is aborted and its entry deleted.
cancelApi(ids) ==
    /\ \E id \in ids :
        worker' =
            IF id \in worker.pendingRequests
            THEN Release([worker EXCEPT
                    !.calls = [c \in Calls |->
                                  IF c \in Holders(worker, id) THEN Cancel(@[c]) ELSE @[c]],
                    !.pendingRequests = Delete(@, id),
                    !.lastCancel = [type |-> "CANCEL_API", requestId |-> id,
                                    cancelled |-> TRUE]])
            ELSE [worker EXCEPT
                    !.lastCancel = [type |-> "CANCEL_API", requestId |-> id,
                                    cancelled |-> FALSE]]
    /\ UNCHANGED <<now, TOKEN_SECRET, GROQ_API_KEY, fallback, recipe, page, probe, registerStore,
                   generateStore, windowCalls, issued, reqs, received, ticks>>

\* onMessage, CANCEL_ALL: every registered controller is aborted and its
\* entry deleted.
cancelAll ==
    /\ worker' =
          Release([worker EXCEPT
              !.calls = [c \in Calls |->
                            IF \E id \in worker.pendingRequests : c \in Holders(worker, id)
                            THEN Cancel(@[c]) ELSE @[c]],
              !.pendingRequests = {},
              !.lastCancel = [type |-> "CANCEL_ALL", requestId |-> 0, cancelled |-> TRUE]])
    /\ UNCHANGED <<now, TOKEN_SECRET, GROQ_API_KEY, fallback, recipe, page, probe, registerStore,
                   generateStore, windowCalls, issued, reqs, received, ticks>>

\* The storage a worker may wake up with: nothing, a token that is good for
\* a long time, or one that expires within a day.
StoredTokens ==
    {IdleWorker}
        \cup {[IdleWorker EXCEPT !.installToken = 1, !.installTokenExpiresAt = e,
                                 !.minted = 1] : e \in {"later", "soon"}}

WorkerStarts == {[w EXCEPT !.build = b] : w \in StoredTokens, b \in {"plain", "agent log"}}

InitWorker ==
    /\ now = 0
    /\ TOKEN_SECRET = TRUE
    /\ GROQ_API_KEY = TRUE
    /\ recipe = "bundled"
    /\ registerStore = << >>
    /\ generateStore = << >>
    /\ windowCalls = [register |-> << >>, generate |-> << >>]
    /\ issued = {}
    /\ reqs = [s \in Slots |-> IdleReq]
    /\ received = 0
    /\ ticks = 0
    /\ worker \in WorkerStarts
    /\ page = IdlePage
    /\ probe = NoProbe
    /\ fallback = NoFallback

NextWorker ==
    \E c \in Calls :
        \/ CallApi(c, Payloads(c))
        \/ ensureInstallToken(c)
        \/ registerReplied(c, RegisterReplies)
        \/ generateReplied(c, GenerateReplies)
        \/ generateFailed(c)
        \/ abort(c)

SpecWorker == InitWorker /\ [][NextWorker]_vars

\* The worker under CALL_API, CANCEL_API and CANCEL_ALL messages.  The ids
\* a CANCEL_API names are those of the call slots and 0, an id no call has.
CancelIds == Calls \cup {0}

CancelReplies == {[status |-> st, body |-> "json"] : st \in {200, 401, 500}}

CancelRegisterReplies ==
    {[kind |-> k, expiresAt |-> "later"] : k \in {"token", "refused"}}

\* The worker starts with empty storage.
InitCancel ==
    /\ now = 0
    /\ TOKEN_SECRET = TRUE
    /\ GROQ_API_KEY = TRUE
    /\ recipe = "bundled"
    /\ registerStore = << >>
    /\ generateStore = << >>
    /\ windowCalls = [register |-> << >>, generate |-> << >>]
    /\ issued = {}
    /\ reqs = [s \in Slots |-> IdleReq]
    /\ received = 0
    /\ ticks = 0
    /\ worker = IdleWorker
    /\ page = IdlePage
    /\ probe = NoProbe
    /\ fallback = NoFallback

NextCancel ==
    \/ cancelApi(CancelIds)
    \/ cancelAll
    \/ \E c \in Calls :
        \/ CallApi(c, Payloads(c))
        \/ ensureInstallToken(c)
        \/ registerReplied(c, CancelRegisterReplies)
        \/ generateReplied(c, CancelReplies)
        \/ generateFailed(c)
        \/ abort(c)

SpecCancel == InitCancel /\ [][NextCancel]_vars

\* The worker as time passes.  What runs inside the browser is bound to
\* happen: chrome.storage answers getInstallToken, and the 120 s timer of a
\* call that has not settled fires.  The proxy is not bound to answer
\* either /api/register or /api/generate.
SpecWorkerLive ==
    /\ InitCancel
    /\ [][NextWorker]_vars
    /\ \A c \in Calls : WF_vars(ensureInstallToken(c)) /\ WF_vars(abort(c))

----------------------------------------------------------------------------
(* The content script (src/extension-ready/content.js): generateAnswer and *)
(* cancelGeneration on one page.  The background worker is the environment: *)
(* each message either resolves with some result or rejects.               *)

\* The calls whose CALL_API request is out.
Waiting(p) == {g \in Generations : p.gens[g].pc = "waiting"}

\* this.currentRequestId is taken away from the requests that are out.
Supersede(p) ==
    [h \in Generations |->
        IF h \in Waiting(p) THEN [p.gens[h] EXCEPT !.stale = TRUE] ELSE p.gens[h]]

\* A write of the answer output by call g; a write made after the call went
\* stale is recorded.
WriteOutput(p, g, text) ==
    [p EXCEPT !.output = Shown(g, text),
              !.late = IF p.gens[g].stale THEN @ \cup {<<g, "output", text>>} ELSE @]

\* A write of this.lastAnswer by call g.
WriteLastAnswer(p, g, text) ==
    [p EXCEPT !.lastAnswer = Shown(g, text),
              !.late = IF p.gens[g].stale THEN @ \cup {<<g, "lastAnswer", text>>} ELSE @]

\* finally { if (this.currentRequestId) this.currentRequestId = null; }
Finally(p, g) ==
    [p EXCEPT !.currentRequestId = 0, !.loadingHidden = TRUE, !.gens[g].pc = "done"]

\* if (this.currentRequestId !== requestId) { loading.hidden = true; return; }
Drop(p, g) ==
    Finally([p EXCEPT !.dropped = @ \cup {g}], g)

\* The stale check of the resolved path.
IsStale(p, g) == p.currentRequestId # g

\* generateAnswer up to its first await: the output is emptied and GET_CV is
\* sent.
generateAnswer ==
    /\ page.started < MaxGenerations
    /\ LET g == page.started + 1
       IN page' = [page EXCEPT !.started = g, !.output = Shown(g, ""),
                       !.loadingHidden = FALSE, !.gens[g].pc = "cv"]
    /\ UNCHANGED <<now, TOKEN_SECRET, GROQ_API_KEY, fallback, recipe, worker, probe, registerStore,
                   generateStore, windowCalls, issued, reqs, received, ticks>>

\* GET_CV answers: without a CV the call says so and ends; with one it takes
\* a request id, makes it the current one and sends CALL_API.
cvReturned(g, answers) ==
    /\ page.gens[g].pc = "cv"
    /\ \E hasCv \in answers :
        page' = IF hasCv
                THEN [page EXCEPT !.currentRequestId = g,
                                  !.gens = [Supersede(page) EXCEPT ![g].pc = "waiting"]]
                ELSE Finally(WriteOutput(page, g, "Please load your CV first"), g)
    /\ UNCHANGED <<now, TOKEN_SECRET, GROQ_API_KEY, fallback, recipe, worker, probe, registerStore,
                   generateStore, windowCalls, issued, reqs, received, ticks>>

\* The CALL_API message resolves: a stale call returns; otherwise the result
\* is shown, and an answer is remembered.
Results == {"none", "error", "answer", "other"}

resolved(g, results) ==
    /\ page.gens[g].pc = "waiting"
    /\ \E result \in results :
        page' = IF IsStale(page, g) THEN Drop(page, g)
                ELSE IF result = "none"
                     THEN Finally(WriteOutput(page, g, "Error: No response from backend"), g)
                ELSE IF result = "error"
                     THEN Finally(WriteOutput(page, g, "Error: result.error"), g)
                ELSE IF result = "answer"
                     THEN Finally(WriteLastAnswer(WriteOutput(page, g, "result.answer"),
                                                  g, "result.answer"), g)
                ELSE Finally(WriteLastAnswer(WriteOutput(page, g, "JSON.stringify(result)"),
                                             g, "JSON.stringify(result)"), g)
    /\ UNCHANGED <<now, TOKEN_SECRET, GROQ_API_KEY, fallback, recipe, worker, probe, registerStore,
                   generateStore, windowCalls, issued, reqs, received, ticks>>

\* catch (error): the message of a rejection is shown.
Catch(p, g, message) ==
    Finally(WriteOutput(p, g,
                IF message = "Extension context invalidated"
                THEN "Extension was updated. Please refresh this page."
                ELSE IF message = "Cancelled" THEN "Cancelled."
                ELSE "Error: error.message"), g)

Rejections == {"Extension context invalidated", "Cancelled", "Could not establish connection"}

\* A sendMessage (GET_CV or CALL_API) rejects.
rejected(g, messages) ==
    /\ page.gens[g].pc \in {"cv", "waiting"}
    /\ \E message \in messages : page' = Catch(page, g, message)
    /\ UNCHANGED <<now, TOKEN_SECRET, GROQ_API_KEY, fallback, recipe, worker, probe, registerStore,
                   generateStore, windowCalls, issued, reqs, received, ticks>>

\* The 120 s timer of the call wins the race against CALL_API.
timedOut(g) ==
    /\ page.gens[g].pc = "waiting"
    /\ page' = Catch(page, g, "Request timed out after 2 minutes")
    /\ UNCHANGED <<now, TOKEN_SECRET, GROQ_API_KEY, fallback, recipe, worker, probe, registerStore,
                   generateStore, windowCalls, issued, reqs, received, ticks>>

\* The calls of generateAnswer that have not ended.
InFlight(p) == {g \in Generations : p.gens[g].pc \in {"cv", "waiting"}}

\* cancelGeneration (Stop, or closing the modal): the spinner is hidden, an
\* empty output becomes 'Cancelled.' and there is no current request any more.
cancelGeneration ==
    /\ page' = [page EXCEPT
                    !.loadingHidden = TRUE,
                    !.output = IF @.text = "" THEN Shown(0, "Cancelled.") ELSE @,
                    !.currentRequestId = 0,
                    !.gens = [h \in Generations |->
                                 IF h \in InFlight(page)
                                 THEN [Supersede(page)[h] EXCEPT !.cancelled = TRUE]
                                 ELSE page.gens[h]]]
    /\ UNCHANGED <<now, TOKEN_SECRET, GROQ_API_KEY, fallback, recipe, worker, probe, registerStore,
                   generateStore, windowCalls, issued, reqs, received, ticks>>

InitPage ==
    /\ now = 0
    /\ TOKEN_SECRET = TRUE
    /\ GROQ_API_KEY = TRUE
    /\ recipe = "bundled"
    /\ registerStore = << >>
    /\ generateStore = << >>
    /\ windowCalls = [register |-> << >>, generate |-> << >>]
    /\ issued = {}
    /\ reqs = [s \in Slots |-> IdleReq]
    /\ received = 0
    /\ ticks = 0
    /\ worker = IdleWorker
    /\ page = IdlePage
    /\ probe = NoProbe
    /\ fallback = NoFallback

NextPage ==
    \/ generateAnswer
    \/ cancelGeneration
    \/ \E g \in Generations :
        \/ cvReturned(g, BOOLEAN)
        \/ resolved(g, Results)
        \/ rejected(g, Rejections)
        \/ timedOut(g)

SpecPage == InitPage /\ [][NextPage]_vars

\* The page as time passes: the worker answers GET_CV from chrome.storage,
\* and the 120 s timer raced against CALL_API fires if nothing else ends the
\* call.  CALL_API itself is not bound to be answered.
SpecPageLive ==
    /\ InitPage
    /\ [][NextPage]_vars
    /\ \A g \in Generations : WF_vars(cvReturned(g, BOOLEAN)) /\ WF_vars(timedOut(g))

----------------------------------------------------------------------------
(* The prompt builders, applied to one input: buildPrompt of the content    *)
(* script (src/unnamed/part_002), buildPrompt of the shared PromptBuilder   *)
(* (src/shared/prompt-builder.js) and buildPrompts of the bundled recipe.   *)
(* A prompt is described by the instruction blocks it contains, its length  *)
(* target and the pieces of the CV it quotes.                               *)

\* The longest question tried.
MaxQuestionLen == 120000

\* The caps the content script passes to getCvContext, and its floor.
MinCvCap == 500
ExtensionCvCapExtract == 2500
ExtensionCvCap == 8000

\* Characters from..to of the CV text, counted from 1.
Piece(from, to) == [from |-> from, to |-> to]

\* '\n\n...[snip - middle omitted to fit prompt]...\n\n'
Snip == [from |-> 0, to |-> 0]

\* raw.slice(0, n) as pieces.
HeadOf(len, n) == IF Min(len, n) <= 0 THEN << >> ELSE <<Piece(1, Min(len, n))>>

\* raw.slice(-n) as pieces, for n > 0.
TailOf(len, n) ==
    IF len <= 0 THEN << >> ELSE <<Piece(Max({len - n, 0}) + 1, len)>>

\* getCvContext cutting a text that is exactly as long as the cap.
getCvContextAtCap(rawText, maxChars) ==
    LET len == IF IsString(rawText) THEN rawText.len ELSE 0
        max == Max({MinCvCap, maxChars})
        headLen == (max * 6) \div 10
    IN  IF len < max THEN HeadOf(len, len)
        ELSE HeadOf(len, headLen) \o <<Snip>> \o TailOf(len, max - headLen)

\* getCvContext(rawText, maxChars).text
getCvContext(rawText, maxChars) ==
    LET len == IF IsString(rawText) THEN rawText.len ELSE 0
        max == Max({MinCvCap, maxChars})
        headLen == (max * 6) \div 10
        tailLen == max - headLen
    IN  IF len <= max THEN HeadOf(len, len)
        ELSE HeadOf(len, headLen) \o <<Snip>> \o TailOf(len, tailLen)

\* hay.includes(needle), on characters.
Includes(hay, needle) ==
    \E i \in 1..(Len(hay) - Len(needle) + 1) :
        SubSeq(hay, i, i + Len(needle) - 1) = needle

\* (question || '').trim().toLowerCase()
Lowered(question) == LET q == Trim(Chars(question)) IN [i \in DOMAIN q |-> Lower(q[i])]

IncludesAny(q, needles) == \E n \in needles : Includes(q, Chars(n))

\* isDataExtractionQuestion with every pattern ending in $.
isDataExtractionLabelWhole(question) ==
    LET q == Trim(Chars(question))
    IN  \E p \in WholePatterns \cup PrefixPatterns : TestWhole(p, q)

\* isDataExtractionQuestion of the content script: the patterns on the
\* trimmed question, without label cleaning.
isDataExtractionLabel(question) ==
    LET q == Trim(Chars(question))
    IN  \/ \E p \in WholePatterns : TestWhole(p, q)
        \/ \E p \in PrefixPatterns : TestPrefix(p, q)

isWhyCompanyQuestionNever(question) == FALSE

isWhyCompanyQuestion(question) ==
    IncludesAny(Lowered(question),
                {"why do you want", "why would you like", "why are you applying",
                 "what draws you", "why this company", "company's mission",
                 "why our company"})

isCoverLetterQuestion(question) ==
    IncludesAny(Lowered(question),
                {"cover letter", "coverletter", "motivation letter",
                 "letter of interest", "application letter"})

\* obj[key] for a key that is no own property: undefined, or what
\* Object.prototype gives (shown as `${value}` shows it).
Inherited(key) ==
    IF ~IsString(key) THEN ""
    ELSE IF key.id = "constructor" THEN "function Object() { [native code] }"
    ELSE IF key.id = "toString" THEN "function toString() { [native code] }"
    ELSE IF key.id = "valueOf" THEN "function valueOf() { [native code] }"
    ELSE IF key.id = "__proto__" THEN "[object Object]"
    ELSE ""

\* The two lengthSpec tables of the content script, with their defaults.
CoverLetterLengthSpec(length) ==
    IF length = Str("short") THEN "150-220 words"
    ELSE IF length = Str("medium") THEN "250-350 words"
    ELSE IF length = Str("long") THEN "350-500 words"
    ELSE IF Inherited(length) # "" THEN Inherited(length)
    ELSE "250-350 words"

NarrativeLengthSpec(length) ==
    IF length = Str("short") THEN "50-80 words"
    ELSE IF length = Str("medium") THEN "100-150 words"
    ELSE IF length = Str("long") THEN "200-300 words"
    ELSE IF Inherited(length) # "" THEN Inherited(length)
    ELSE "100-150 words"

\* buildExtractionPrompt(cvData, question)
buildExtractionPrompt(cvData, question) ==
    [blocks |-> {"extraction"}, target |-> "",
     cv |-> getCvContext(cvData, ExtensionCvCapExtract), ask |-> question]

\* buildPrompt(cvData, question, length) of the content script;
\* hasJob: this.pageContext?.jobDescription is truthy.
buildPrompt(cvData, question, length, hasJob) ==
    IF isDataExtractionLabel(question) THEN buildExtractionPrompt(cvData, question)
    ELSE LET isCoverLetter == isCoverLetterQuestion(question)
         IN  [blocks |-> (IF isCoverLetter THEN {"coverLetter", "Dear"} ELSE {})
                         \cup (IF isWhyCompanyQuestion(question)
                               THEN {"whyCompany"} ELSE {})
                         \cup (IF hasJob THEN {"tailor"} ELSE {}),
              target |-> IF isCoverLetter THEN CoverLetterLengthSpec(length)
                         ELSE NarrativeLengthSpec(length),
              cv |-> getCvContext(cvData, ExtensionCvCap), ask |-> question]

\* detectQuestionType(question) = 'cover_letter': the first list tried.
IsCoverLetterType(question) ==
    LET q == Chars(question)
    IN  IncludesAny([i \in DOMAIN q |-> Lower(q[i])],
                    {"cover letter", "coverletter", "letter of interest",
                     "motivation letter", "application letter",
                     "write a cover letter", "write cover letter"})

\* effectiveLengthSpec.words of PromptBuilder.buildPrompt (length defaults
\* to 'medium'); an inherited property has no .words.
EffectiveWords(question, length) ==
    LET len == IF length = Undef THEN Str("medium") ELSE length
        known == len \in {Str("short"), Str("medium"), Str("long")}
    IN  IF IsCoverLetterType(question)
        THEN IF known THEN CoverLetterLengthSpec(len)
             ELSE IF Inherited(len) # "" THEN "undefined words"
             ELSE "250-350 words"
        ELSE IF known THEN NarrativeLengthSpec(len)
             ELSE IF Inherited(len) # "" THEN "undefined words"
             ELSE "100-150 words"

\* PromptBuilder.buildPrompt, as far as the cover letter and the length
\* target go.
PromptBuilderPrompt(question, length) ==
    [blocks |-> IF IsCoverLetterType(question) THEN {"coverLetter", "Dear"} ELSE {},
     target |-> EffectiveWords(question, length)]

\* The inputs tried.
QuestionTexts ==
    {"LinkedIn", "Your name", "Cover letter", "Why do you want to work here?",
     "Cover letter: why do you want to join us?", "Describe a challenge you faced",
     "Email your cover letter"}

ProbeQuestions ==
    {Str(q) : q \in QuestionTexts}
        \cup {Text("Describe a challenge you faced", MaxQuestionLen)}

ProbeLengths ==
    {Undef, Str("short"), Str("medium"), Str("long"), Str("huge"), Str("constructor")}

ProbeCvTexts ==
    {Text("cv", n) : n \in {MinCvLen, CvCapExtract, CvCapExtract + 1, CvCapGeneral,
                            CvCapGeneral + 1, ExtensionCvCap, ExtensionCvCap + 1}}

ProbeInputs ==
    [question : ProbeQuestions, length : ProbeLengths, cvText : ProbeCvTexts,
     job : {NoJob, FullJob}]

\* What the content script sends and the handler passes on to the recipe.
StructuredInput(i) ==
    [question |-> i.question, length |-> OrElse(i.length, Str("medium")),
     cvText |-> i.cvText, jobTitle |-> i.job.jobTitle, company |-> i.job.company,
     jobDescription |-> i.job.jobDescription, requirements |-> i.job.requirements]

ApplyBuildPrompt ==
    /\ probe.by = "none"
    /\ probe' = [probe EXCEPT !.by = "content script",
                     !.out = buildPrompt(probe.input.cvText, probe.input.question.id,
                                         probe.input.length,
                                         Truthy(probe.input.job.jobDescription))]
    /\ UNCHANGED <<now, TOKEN_SECRET, GROQ_API_KEY, fallback, recipe, worker, page, registerStore,
                   generateStore, windowCalls, issued, reqs, received, ticks>>

ApplyPromptBuilder ==
    /\ probe.by = "none"
    /\ probe' = [probe EXCEPT !.by = "shared",
                     !.out = PromptBuilderPrompt(probe.input.question.id,
                                                 probe.input.length)]
    /\ UNCHANGED <<now, TOKEN_SECRET, GROQ_API_KEY, fallback, recipe, worker, page, registerStore,
                   generateStore, windowCalls, issued, reqs, received, ticks>>

ApplyBuildPrompts ==
    /\ probe.by = "none"
    /\ probe' = [probe EXCEPT !.by = "recipe",
                     !.out = buildPrompts(StructuredInput(probe.input))]
    /\ UNCHANGED <<now, TOKEN_SECRET, GROQ_API_KEY, fallback, recipe, worker, page, registerStore,
                   generateStore, windowCalls, issued, reqs, received, ticks>>

InitPrompt ==
    /\ now = 0
    /\ TOKEN_SECRET = TRUE
    /\ GROQ_API_KEY = TRUE
    /\ recipe = "bundled"
    /\ registerStore = << >>
    /\ generateStore = << >>
    /\ windowCalls = [register |-> << >>, generate |-> << >>]
    /\ issued = {}
    /\ reqs = [s \in Slots |-> IdleReq]
    /\ received = 0
    /\ ticks = 0
    /\ worker = IdleWorker
    /\ page = IdlePage
    /\ probe \in {[by |-> "none", input |-> i, out |-> [blocks |-> {}]] : i \in ProbeInputs}
    /\ fallback = NoFallback

NextPrompt == ApplyBuildPrompt \/ ApplyPromptBuilder \/ ApplyBuildPrompts

SpecPrompt == InitPrompt /\ [][NextPrompt]_vars

----------------------------------------------------------------------------
(* The backend's provider fallback (src/backend/llm-providers.js):         *)
(* buildFallbackChain at startup and one call of generateWithFallback.  A   *)
(* provider is the environment: generate resolves with a result or rejects  *)
(* with an Error.                                                          *)

Providers ==
    {"ollama", "lmstudio", "localai", "groq", "gemini", "mistral", "together", "openai"}

\* The cloud providers added when their API key is set, in the order of the
\* if statements.
CloudProviders == <<"groq", "gemini", "mistral", "together", "openai">>

\* process.env: LLM_PROVIDER ("" when unset) and the API keys that are set.
Envs == [LLM_PROVIDER : Providers \cup {""}, keys : SUBSET {"groq", "gemini", "mistral", "together", "openai"}]

\* buildFallbackChain(env)
buildFallbackChain(env) ==
    LET primary == IF env.LLM_PROVIDER = "" THEN "ollama" ELSE env.LLM_PROVIDER
        WithKey(n) == n \in env.keys /\ primary # n
    IN  [i \in 1..1 |-> [name |-> primary]]
            \o (IF primary # "ollama" THEN <<[name |-> "ollama"]>> ELSE << >>)
            \o [i \in 1..Len(SelectSeq(CloudProviders, WithKey)) |->
                    [name |-> SelectSeq(CloudProviders, WithKey)[i]]]

\* errors.map(e => `${e.provider}: ${e.error}`).join('; ')
RECURSIVE JoinErrors(_)
JoinErrors(errors) ==
    IF errors = << >> THEN ""
    ELSE Head(errors).provider \o ": " \o Head(errors).error
            \o (IF Tail(errors) = << >> THEN "" ELSE "; " \o JoinErrors(Tail(errors)))

\* A result returned as the provider gave it.
Untagged(result, name) == result

\* { ...result, provider: name }
Tagged(result, name) == [result EXCEPT !.provider = name]

\* The loop of lines 495-505 from entry i on: the next provider is called,
\* or, the chain being used up, the combined error is thrown.
TryFrom(f, i) ==
    IF i > Len(f.chain)
    THEN [f EXCEPT !.pc = "threw",
                   !.thrown = "All providers failed: " \o JoinErrors(f.errors)]
    ELSE [f EXCEPT !.pc = "awaiting", !.called = Append(@, f.chain[i].name)]

\* generateWithFallback(fallbackChain, messages, options), to its first await.
generateWithFallback ==
    /\ fallback.pc = "idle"
    /\ fallback' = TryFrom(fallback, 1)
    /\ UNCHANGED <<now, TOKEN_SECRET, GROQ_API_KEY, recipe, worker, page, probe,
                   registerStore, generateStore, windowCalls, issued, reqs, received, ticks>>

\* What generate(name, config, messages, options) may do.
ProviderReplies ==
    {[ok |-> TRUE, answer |-> "answer", error |-> ""]}
        \cup {[ok |-> FALSE, answer |-> "", error |-> m] :
                  m \in {"fetch failed", "Rate limit reached"}}

\* The awaited generate settles: a result is returned with the provider's
\* name; an error is pushed and the loop goes on.
generated(replies) ==
    /\ fallback.pc = "awaiting"
    /\ \E reply \in replies :
        LET i == Len(fallback.called)
            name == fallback.chain[i].name
            f == [fallback EXCEPT !.replies = Append(@, reply)]
        IN  fallback' =
                IF reply.ok
                THEN [f EXCEPT !.pc = "returned",
                               !.result = Tagged([answer |-> reply.answer, provider |-> ""],
                                                 name)]
                ELSE TryFrom([f EXCEPT !.errors =
                                  Append(@, [provider |-> name, error |-> reply.error])],
                             i + 1)
    /\ UNCHANGED <<now, TOKEN_SECRET, GROQ_API_KEY, recipe, worker, page, probe,
                   registerStore, generateStore, windowCalls, issued, reqs, received, ticks>>

InitFallback ==
    /\ now = 0
    /\ TOKEN_SECRET = TRUE
    /\ GROQ_API_KEY = TRUE
    /\ recipe = "bundled"
    /\ registerStore = << >>
    /\ generateStore = << >>
    /\ windowCalls = [register |-> << >>, generate |-> << >>]
    /\ issued = {}
    /\ reqs = [s \in Slots |-> IdleReq]
    /\ received = 0
    /\ ticks = 0
    /\ worker = IdleWorker
    /\ page = IdlePage
    /\ probe = NoProbe
    /\ fallback \in {IdleFallback(buildFallbackChain(env)) : env \in Envs}

NextFallback ==
    \/ generateWithFallback
    \/ generated(ProviderReplies)

SpecFallback == InitFallback /\ [][NextFallback]_vars

----------------------------------------------------------------------------
(* Properties of the install-token gate, checked under SpecAuth *)

Gated(r) == r.route \in {"generate", "upload"}

\* authRequired has run for the request.
PastAuth(r) == Gated(r) /\ r.authCalls = 1

\* What verifyToken gave for the request's bearer token when authRequired ran.
Verdict(r) == verifyToken(getBearerToken(r.auth), r.authAt)

Refused(r) == Threw(Verdict(r)) \/ ~Verdict(r).ok

Reasons == {"missing", "format", "sig", "payload", "expired", "iat", "jti"}

PayloadOf(tok) == tok.payloadB64.val.obj

\* token is an issued token with exactly one of its two segments replaced.
IsTampered(token) ==
    /\ token.kind = "token"
    /\ \E tok \in issued :
          (token.payloadB64 = tok.payloadB64) # (token.sigB64 = tok.sigB64)

\* C1: with the signing secret configured, every /api/generate or
\* /api/cv/upload request whose bearer token is missing or fails verification
\* is answered 401 with the verification reason code, and it increments no
\* rate-limit counter, invokes no recipe and makes no backend call.
C1_UnverifiedAnswered401 ==
    \A s \in Slots :
        LET r == reqs[s] IN
        (TOKEN_SECRET /\ PastAuth(r) /\ Refused(r)) =>
            /\ r.status = 401
            /\ ~Threw(Verdict(r))
            /\ r.reason = Verdict(r).reason
            /\ r.limiterHits = 0
            /\ r.recipeCalls = 0
            /\ r.fetchCalls = 0

\* C2: every token issued by /api/register has exp = iat + 90 days, verifies
\* at its issue time and at every later time up to and including exp, and
\* is refused at every time after exp.
C2_IssuedTokenLifetime ==
    \A tok \in issued :
        LET p == PayloadOf(tok)
            v == verifyToken(tok, now)
        IN  /\ p.exp.v = p.iat.v + TokenTtl
            /\ verifyToken(tok, p.iat.v) = [ok |-> TRUE, payload |-> p]
            /\ ~Threw(v)
            /\ v.ok <=> now <= p.exp.v

\* C2 witness: a gated request presented an issued token after its exp and
\* was refused as expired.
C2_ExpiredTokenRefused ==
    \E s \in Slots :
        LET r == reqs[s] IN
        /\ PastAuth(r)
        /\ getBearerToken(r.auth) \in issued
        /\ r.authAt > PayloadOf(getBearerToken(r.auth)).exp.v
        /\ r.status = 401
        /\ r.reason = "expired"

\* C3: an issued token with either segment replaced by any different value,
\* of any length, is refused with reason 'sig'.
C3_TamperedRefusedSig ==
    \A s \in Slots :
        LET r == reqs[s] IN
        (TOKEN_SECRET /\ PastAuth(r) /\ IsTampered(getBearerToken(r.auth))) =>
            /\ Verdict(r) = [ok |-> FALSE, reason |-> "sig"]
            /\ r.status = 401
            /\ r.reason = "sig"

\* C4: verifyToken never raises: for every token value it returns ok or one
\* of the seven reasons, so that a refused gated request is answered 401.
C4_VerifyFailsClosed ==
    \A s \in Slots :
        LET r == reqs[s] IN
        (TOKEN_SECRET /\ PastAuth(r)) =>
            /\ ~Threw(Verdict(r))
            /\ Refused(r) => (Verdict(r).reason \in Reasons /\ r.status = 401)

\* The request has been counted by its route's limiter.
Counted(r) == r.limiterHits = 1

\* The token carries the HMAC of its payload segment, and that segment
\* decodes to JSON text.
Signed(tok) == tok.kind = "token" /\ tok.sigB64 = HmacB64(tok.payloadB64)

Parseable(tok) == tok.payloadB64.enc = "json"

\* payload[f] of what the payload segment parses to.
FieldOf(tok, f) ==
    LET parsed == tok.payloadB64.val IN
    IF parsed.json = "object" THEN parsed.obj[f] ELSE Undef

ExpOk(tok, t) == IsNumber(FieldOf(tok, "exp")) /\ FieldOf(tok, "exp").v >= t

IatOk(tok, t) == IsNumber(FieldOf(tok, "iat")) /\ FieldOf(tok, "iat").v <= t + 60

JtiOk(tok) == IsString(FieldOf(tok, "jti")) /\ FieldOf(tok, "jti").len >= 8

RefusedAs(r, reason) == r.status = 401 /\ r.reason = reason /\ r.limiterHits = 0

\* The request got past authRequired only with a token that passed the five
\* checks at that time, and a signed, parseable token was refused for the
\* first of exp, iat, jti that is wrong.
ChecksInOrder(r) ==
    LET tok == getBearerToken(r.auth)
        t == r.authAt
    IN  /\ Counted(r) =>
              /\ Signed(tok) /\ Parseable(tok)
              /\ ExpOk(tok, t) /\ IatOk(tok, t) /\ JtiOk(tok)
        /\ (r.authCalls = 1 /\ Signed(tok) /\ Parseable(tok)) =>
              /\ ~ExpOk(tok, t) => RefusedAs(r, "expired")
              /\ (ExpOk(tok, t) /\ ~IatOk(tok, t)) => RefusedAs(r, "iat")
              /\ (ExpOk(tok, t) /\ IatOk(tok, t) /\ ~JtiOk(tok)) => RefusedAs(r, "jti")

\* C23: a request reaches a gated handler only with a token that, when it
\* was verified, had a matching signature, a parseable payload, exp >= now,
\* iat <= now + 60 and a string jti of 8 characters or more; a correctly
\* signed token failing one of the last three is refused with reason
\* expired, iat or jti, the first of them that fails.
C23_TokenChecksInOrder ==
    \A s \in Slots :
        (TOKEN_SECRET /\ Gated(reqs[s])) => ChecksInOrder(reqs[s])

\* The same for every token whose payload is not the JSON text null.
TokenChecksInOrderUnlessNull ==
    \A s \in Slots :
        LET r == reqs[s]
            tok == getBearerToken(r.auth)
        IN  (TOKEN_SECRET /\ Gated(r)
                /\ ~(Signed(tok) /\ Parseable(tok) /\ tok.payloadB64.val.json = "null")) =>
            ChecksInOrder(r)

----------------------------------------------------------------------------
(* Properties of the rate limiters, checked under SpecLimiter *)

\* C5 as stated: /api/generate calls are limited on their own count: in a
\* key's hour the first 60 /api/generate calls pass and every later one is
\* answered 429; the first 20 /api/register calls of an IP pass and every
\* later one is answered 429 and issues no token.
C5_GenerateCountedAlone ==
    \A s \in Slots :
        LET r == reqs[s] IN
        /\ (r.route = "generate" /\ Counted(r)) =>
              (r.status = 429 <=> r.calls.generate > GenerateLimit)
        /\ (r.route = "register" /\ Counted(r)) =>
              /\ r.status = 429 <=> r.calls.register > RegisterLimit
              /\ r.status = 429 => r.token = NoToken

\* C5: the limit of 60 is on the /api/generate and /api/cv/upload calls of a
\* key together: in a key's hour the first 60 of them pass the limiter and
\* every later one is answered 429; the first 20 /api/register calls of an
\* IP in its hour pass and every later one is answered 429 with no token.
C5_GatedRoutesShareWindow ==
    \A s \in Slots :
        LET r == reqs[s] IN
        /\ (Gated(r) /\ Counted(r)) =>
              (r.status = 429 <=> r.calls.generate + r.calls.upload > GenerateLimit)
        /\ (r.route = "register" /\ Counted(r)) =>
              /\ r.status = 429 <=> r.calls.register > RegisterLimit
              /\ r.status = 429 => r.token = NoToken

\* C5 witness: a /api/generate call among the key's first 60 is answered 429
\* because uploads of the same hour were counted with it.
C5_GenerateRefusedEarly ==
    \E s \in Slots :
        LET r == reqs[s] IN
        /\ r.route = "generate"
        /\ r.status = 429
        /\ r.calls.generate <= GenerateLimit
        /\ r.calls.upload > 0

\* The /api/generate requests made with token tok from address ip that the
\* limiter has let through in the window of that pair open now.
AdmittedFrom(tok, ip) ==
    Min(Hits(generateStore, <<tok, ip>>, now), GenerateLimit)

RECURSIVE SumOver(_, _)
SumOver(f, S) ==
    IF S = {} THEN 0
    ELSE LET x == CHOOSE y \in S : TRUE IN f[x] + SumOver(f, S \ {x})

\* The same, over every address.
AdmittedFor(tok) ==
    SumOver([ip \in ClientIps |-> AdmittedFrom(tok, ip)], ClientIps)

\* C22: within one window at most 60 /api/generate requests are admitted
\* for one token, from however many client addresses it is presented.
C22_TokenNotAmplifiedAcrossIps ==
    \A tok \in issued : AdmittedFor(tok) <= GenerateLimit

----------------------------------------------------------------------------
(* Properties of POST /api/generate, checked under Spec *)

\* The /api/generate handler has started on the request's body.
Handled(r) == r.route = "generate" /\ r.body # NoBody /\ GROQ_API_KEY

HasQuestion(body) == IsString(body.question) /\ body.question.len > 0

HasPrompts(body) == IsString(body.systemPrompt) /\ IsString(body.userPrompt)

SentAs(r, pair) ==
    /\ r.sent.systemPrompt = pair.systemPrompt
    /\ r.sent.userPrompt = pair.userPrompt

\* C6: a body with a non-empty string question is handled on the structured
\* path, whatever else it carries: either its cvText is refused or the recipe
\* is invoked, and only the recipe's prompts can go to the backend; without
\* such a question, a body with string systemPrompt and userPrompt is
\* handled without the recipe and only its own prompts, unchanged, can go to
\* the backend; any other body is answered 400 with no backend call.
C6_RoutedByQuestionFirst ==
    \A s \in Slots :
        LET r == reqs[s] IN
        Handled(r) =>
            IF HasQuestion(r.body)
            THEN /\ r.recipeCalls = 1 \/ (r.status = 400 /\ r.fetchCalls = 0)
                 /\ r.fetchCalls > 0 =>
                       (r.recipeCalls = 1 /\ ~Threw(r.built) /\ SentAs(r, r.built))
            ELSE IF HasPrompts(r.body)
            THEN /\ r.recipeCalls = 0
                 /\ r.fetchCalls > 0 => SentAs(r, r.body)
                 /\ r.fetchCalls = 0 => r.status \in {400, 413}
            ELSE /\ r.status = 400
                 /\ r.recipeCalls = 0
                 /\ r.fetchCalls = 0

\* C6 witness: a body with a question and with valid legacy prompts went
\* through the recipe, and the recipe's prompts went to the backend.
C6_QuestionBeatsLegacy ==
    \E s \in Slots :
        LET r == reqs[s] IN
        /\ Handled(r)
        /\ HasQuestion(r.body)
        /\ HasPrompts(r.body)
        /\ r.recipeCalls = 1
        /\ r.fetchCalls = 1
        /\ r.sent.systemPrompt # r.body.systemPrompt

\* The prompt pair the handler had to validate: the recipe's result on the
\* structured path, the body's own prompts on the legacy path.
HasPair(r) ==
    IF HasQuestion(r.body) THEN r.recipeCalls = 1 /\ ~Threw(r.built)
    ELSE HasPrompts(r.body)

PairOf(r) == IF HasQuestion(r.body) THEN r.built ELSE r.body

InRange(x, max) == IsString(x) /\ x.len >= 10 /\ x.len <= max

TooShort(x) == ~IsString(x) \/ x.len < 10

\* C7: the backend is only ever called with a systemPrompt that is a string
\* of 10..30000 characters and a userPrompt that is a string of 10..120000
\* characters, and these are the pair the path produced, unaltered; a pair
\* with a prompt that is not a string or is under 10 characters is answered
\* 400, and otherwise a pair with a prompt above its ceiling is answered 413.
C7_BackendPromptsInRange ==
    \A s \in Slots :
        LET r == reqs[s] IN
        /\ r.fetchCalls > 0 =>
              /\ InRange(r.sent.systemPrompt, 30000)
              /\ InRange(r.sent.userPrompt, 120000)
        /\ (Handled(r) /\ HasPair(r)) =>
              LET pair == PairOf(r)
                  short == TooShort(pair.systemPrompt) \/ TooShort(pair.userPrompt)
                  fits == /\ InRange(pair.systemPrompt, 30000)
                          /\ InRange(pair.userPrompt, 120000)
              IN  /\ short => (r.status = 400 /\ r.fetchCalls = 0)
                  /\ (~short /\ ~fits) => (r.status = 413 /\ r.fetchCalls = 0)
                  /\ fits => (r.fetchCalls = 1 /\ SentAs(r, pair))

\* C7 witness: a custom recipe returned a userPrompt above the ceiling and
\* the request was answered 413 without a backend call.
C7_OversizedRecipeOutputRefused ==
    \E s \in Slots :
        LET r == reqs[s] IN
        /\ Handled(r)
        /\ recipe = "custom"
        /\ r.recipeCalls = 1
        /\ ~Threw(r.built)
        /\ IsString(r.built.userPrompt)
        /\ r.built.userPrompt.len > 120000
        /\ r.status = 413
        /\ r.fetchCalls = 0

\* C8: a request with a non-empty string question whose cvText is missing,
\* not a string, or shorter than 5 characters is answered 400, without any
\* call of recipe.buildPrompts and without any backend call.
C8_ShortCvRefused ==
    \A s \in Slots :
        LET r == reqs[s] IN
        (/\ Handled(r)
         /\ HasQuestion(r.body)
         /\ ~IsString(r.body.cvText) \/ r.body.cvText.len < 5) =>
            /\ r.status = 400
            /\ r.recipeCalls = 0
            /\ r.fetchCalls = 0

\* C8 witness: a structured request with a cvText of 4 characters was
\* answered 400.
C8_FourCharCvRefused ==
    \E s \in Slots :
        LET r == reqs[s] IN
        /\ Handled(r)
        /\ HasQuestion(r.body)
        /\ IsString(r.body.cvText)
        /\ r.body.cvText.len = 4
        /\ r.status = 400

\* C9: a 200 from /api/generate carries a non-empty answer; a 2xx JSON reply
\* of the backend without an answer, or with an empty one, is answered 502
\* 'No answer from provider'; a non-2xx reply is answered 502 with the first
\* 400 characters of the upstream body at most.
C9_NoEmptySuccess ==
    \A s \in Slots :
        LET r == reqs[s] IN
        (r.route = "generate" /\ r.pc = "done") =>
            /\ r.status = 200 => (r.answer # Undef /\ r.answer # Str(""))
            /\ (r.reply.kind = "json" /\ r.reply.answer \in {Undef, Str("")}) =>
                  (r.status = 502 /\ r.error = "No answer from provider")
            /\ r.reply.kind = "error" =>
                  /\ r.status = 502
                  /\ r.details.len <= 400
                  /\ r.details.len = Min(r.reply.text.len, 400)

\* C9 witness: the backend replied 2xx with an empty answer and the request
\* was answered 502.
C9_EmptyAnswerRefused ==
    \E s \in Slots :
        LET r == reqs[s] IN
        /\ r.route = "generate"
        /\ r.reply.kind = "json"
        /\ r.reply.answer = Str("")
        /\ r.status = 502
        /\ r.error = "No answer from provider"

\* C27: when recipe.buildPrompts throws for a structured request (an Error
\* of the recipe, or the TypeError of a module without a buildPrompts
\* function), the gateway answers 500 'Recipe error' with the first 200
\* characters of the message at most, and the backend is not called.
C27_RecipeErrorAnswered500 ==
    \A s \in Slots :
        LET r == reqs[s] IN
        (Handled(r) /\ r.recipeCalls = 1 /\ Threw(r.built)) =>
            /\ r.status = 500
            /\ r.error = "Recipe error"
            /\ r.details.id = r.built.message.id
            /\ r.details.len <= 200
            /\ r.built.message.len <= 200 => r.details.len = r.built.message.len
            /\ r.fetchCalls = 0
            /\ r.responses = 1

\* C27 witness: the recipe threw an Error with a message of 201 characters
\* and the request was answered 500 with 200 of them.
C27_LongMessageCut ==
    \E s \in Slots :
        LET r == reqs[s] IN
        /\ Handled(r)
        /\ recipe = "custom"
        /\ r.recipeCalls = 1
        /\ Threw(r.built)
        /\ r.built.message.len = 201
        /\ r.status = 500
        /\ r.details.len = 200
        /\ r.fetchCalls = 0

\* C28: whenever the gateway calls recipe.buildPrompts, the question it
\* passes, which is the request's question after label cleaning, is not
\* empty.
C28_RecipeQuestionNonEmpty ==
    \A s \in Slots :
        LET r == reqs[s] IN
        r.recipeCalls > 0 =>
            (IsString(r.recipeInput.question) /\ r.recipeInput.question.len > 0)

\* C10: whatever the backend does, a /api/generate request that passed
\* authentication and rate limiting ends with exactly one response, and a
\* backend failure is answered 502 or 504.
C10_BackendFailureAnswered ==
    \A s \in Slots :
        LET r == reqs[s] IN
        (r.route = "generate" /\ r.fetchCalls = 1 /\ r.pc \in {"done", "abandoned"}) =>
            /\ r.responses = 1
            /\ r.reply.kind \in {"error", "notjson", "failed"} => r.status \in {502, 504}

----------------------------------------------------------------------------
(* Claims about the background worker.                                     *)

\* Calls to /api/register made after the stored token was cleared.
ReRegisters(call) == Cardinality({i \in DOMAIN call.registers : call.registers[i] = 2})

Answered(call) == call.pc = "done" /\ Len(call.statuses) >= 1

\* C11 as stated: a handled CALL_API whose first response is not 401 made
\* exactly one POST /api/generate and surfaced a non-2xx status as an error;
\* one whose first response is 401 made exactly two, cleared the stored
\* token, called /api/register once, re-sent the same payload with a new
\* token, and surfaced a second 401 as an error.
C11_OneAttemptOrExactlyTwo ==
    \A c \in Calls :
        LET call == worker.calls[c]
        IN Answered(call) =>
            IF call.statuses[1] # 401
            THEN /\ Attempts(call) = 1
                 /\ ~Ok(call.statuses[1]) => call.outcome = "error"
            ELSE /\ Attempts(call) = 2
                 /\ call.clears = 1
                 /\ ReRegisters(call) = 1
                 /\ call.sent[2].payload = call.sent[1].payload
                 /\ call.sent[2].token # call.sent[1].token
                 /\ (Len(call.statuses) = 2 /\ call.statuses[2] = 401)
                        => call.outcome = "error"

\* C11, amended: a call never makes more than two POST /api/generate
\* attempts.  A first response other than 401 ends the call after one
\* attempt, a non-2xx status as an error.  A first 401 clears the stored
\* token once and calls /api/register at most once; the second attempt, when
\* made, carries the same payload and a different token, and any non-2xx
\* second response (401 included) is surfaced as an error; the call ends
\* after one attempt, with an error, only when no new token was obtained or
\* the call was aborted.
C11_AtMostOneRetry ==
    \A c \in Calls :
        LET call == worker.calls[c]
        IN /\ Attempts(call) <= 2
           /\ Len(call.statuses) <= Attempts(call)
           /\ (Len(call.statuses) >= 1 /\ call.statuses[1] # 401)
                => /\ call.pc = "done"
                   /\ Attempts(call) = 1
                   /\ call.clears = 0
                   /\ ~Ok(call.statuses[1]) => call.outcome = "error"
           /\ (Len(call.statuses) >= 1 /\ call.statuses[1] = 401)
                => /\ call.clears = 1
                   /\ ReRegisters(call) <= 1
                   /\ Attempts(call) = 2
                        => /\ call.sent[2].payload = call.sent[1].payload
                           /\ call.sent[2].token # call.sent[1].token
                   /\ (call.pc = "done" /\ Attempts(call) = 1)
                        => /\ call.outcome = "error"
                           /\ \/ call.aborted
                              \/ call.message \in {"Register failed", "Failed to fetch"}
                   /\ (Len(call.statuses) = 2 /\ ~Ok(call.statuses[2]))
                        => call.pc = "done" /\ call.outcome = "error"

\* A call answered 401 twice: two attempts, one re-registration, an error.
C11_Second401Surfaced ==
    \E c \in Calls :
        LET call == worker.calls[c]
        IN /\ call.pc = "done"
           /\ call.statuses = <<401, 401>>
           /\ Attempts(call) = 2
           /\ ReRegisters(call) = 1
           /\ call.outcome = "error"

\* A CANCEL_API(id) step: the controller under id is aborted, that entry
\* alone is removed and the reply is cancelled: true, every other call being
\* left as it was; for an id that is not registered nothing changes and the
\* reply is cancelled: false.
CancelApiFrame(id) ==
    IF id \in worker.pendingRequests
    THEN /\ \A c \in Holders(worker, id) : worker'.calls[c].aborted
         /\ \A c \in Calls \ Holders(worker, id) : worker'.calls[c] = worker.calls[c]
         /\ worker'.pendingRequests = worker.pendingRequests \ {id}
         /\ worker'.lastCancel.cancelled
    ELSE /\ worker'.calls = worker.calls
         /\ worker'.pendingRequests = worker.pendingRequests
         /\ ~worker'.lastCancel.cancelled

\* A CANCEL_ALL step: every registered controller is aborted and the
\* registry is left empty.
CancelAllFrame ==
    /\ \A id \in worker.pendingRequests :
          \A c \in Holders(worker, id) : worker'.calls[c].aborted
    /\ worker'.pendingRequests = {}

CancelFrames ==
    /\ \A id \in CancelIds : cancelApi({id}) => CancelApiFrame(id)
    /\ cancelAll => CancelAllFrame

\* A call aborted by a cancel message ends with the error 'Cancelled'.
CancelledEndsCancelled ==
    \A c \in Calls :
        LET call == worker.calls[c] IN
        (call.cancelled /\ call.pc = "done") =>
            (call.outcome = "error" /\ call.message = "Cancelled")

\* C24: CANCEL_API(id) aborts the controller under id, removes exactly that
\* entry and replies cancelled: true, touching no other pending request; for
\* an unknown id it changes nothing and replies cancelled: false; CANCEL_ALL
\* aborts every pending controller and empties the registry; and a request
\* aborted either way completes with the error 'Cancelled'.
C24_CancelFrameAndOutcome == [][CancelFrames]_vars /\ []CancelledEndsCancelled

\* The frame conditions of the two cancel messages alone.
CancelMessagesFrame == [][CancelFrames]_vars

\* handleAPICall of slot c has started and not settled.
Running(c) == worker.calls[c].pc \notin {"idle", "done"}

Registered(w, c) == w.calls[c].requestId \in w.pendingRequests

\* Every entry of the registry belongs to a call that is under way, and a
\* settled call has none.
RegistryOfRunningCalls ==
    /\ \A id \in worker.pendingRequests : \E c \in Calls : Running(c) /\ worker.calls[c].requestId = id
    /\ \A c \in Calls : worker.calls[c].pc = "done" => ~Registered(worker, c)

\* A step in which call c settles and which is not the handling of a cancel
\* message leaves the entry of every other call that is under way alone.
SettlingKeepsOthers ==
    \A c \in Calls :
        (Running(c) /\ worker'.calls[c].pc = "done"
            /\ ~cancelAll /\ ~cancelApi(CancelIds)) =>
        \A d \in Calls \ {c} :
            Running(d) =>
                /\ worker'.calls[d] = worker.calls[d]
                /\ Registered(worker', d) <=> Registered(worker, d)

\* C25: under any interleaving of CALL_API, CANCEL_API and CANCEL_ALL
\* messages, pendingRequests holds an entry only for a handleAPICall that has
\* started and not settled; a settled call (result, proxy error, abort or
\* timeout) has no entry left, and its settling neither removes nor replaces
\* the entry of another call that is still under way.
C25_RegistryHoldsOnlyRunningCalls ==
    []RegistryOfRunningCalls /\ [][SettlingKeepsOthers]_vars

\* C25 witness: one call has settled and released its entry while another
\* one is under way and still registered.
C25_OneSettledOtherRegistered ==
    \E c, d \in Calls :
        /\ worker.calls[c].pc = "done"
        /\ worker.calls[c].requestId # 0
        /\ ~Registered(worker, c)
        /\ Running(d)
        /\ Registered(worker, d)

\* C26: a generation never waits forever in the worker: every
\* handleAPICall eventually settles and releases its registry entry, even
\* when the proxy never answers /api/register or /api/generate (the 120 s
\* timeout then fails the request).
C26_EveryCallSettles ==
    \A c \in Calls :
        Running(c) ~> (worker.calls[c].pc = "done" /\ ~Registered(worker, c))

----------------------------------------------------------------------------
(* Claims about the content script.                                        *)

\* C12: once a call of generateAnswer has been cancelled or superseded, it
\* writes neither the answer output nor lastAnswer, however it ends (answer,
\* error reply, rejected message, 2-minute timeout).
C12_StaleRequestWritesNothing == page.late = {}

\* The newest request: it is out, no newer request took its place and
\* cancelGeneration did not run during its call.
Newest(g) ==
    /\ page.gens[g].pc = "waiting"
    /\ ~page.gens[g].stale
    /\ ~page.gens[g].cancelled

\* C21: while a request that was started after an earlier one, and was never
\* cancelled, is out, it stays the current request and its spinner stays
\* visible, whatever the earlier calls do; and its result is never discarded.
C21_NewerRequestUndisturbed ==
    /\ \A g \in Generations :
          Newest(g) => page.currentRequestId = g /\ ~page.loadingHidden
    /\ \A g \in page.dropped : page.gens[g].stale \/ page.gens[g].cancelled

\* Every generateAnswer ends, and with it the spinner is hidden, whether or
\* not CALL_API is ever answered (checked under SpecPageLive).
SpinnerEventuallyHidden ==
    /\ \A g \in Generations : (page.gens[g].pc # "idle") ~> (page.gens[g].pc = "done")
    /\ (~page.loadingHidden) ~> page.loadingHidden

----------------------------------------------------------------------------
(* Claims about the prompt builders.                                       *)

Built(by) == probe.by = by

\* The questions tried, by the lists they match.
ExtractionAsked(by) ==
    IF by = "recipe" THEN {"LinkedIn", "Your name", "Email your cover letter"}
    ELSE {"LinkedIn", "Email your cover letter"}

CoverLetterAsked ==
    {"Cover letter", "Cover letter: why do you want to join us?",
     "Email your cover letter"}

WhyCompanyAsked ==
    {"Why do you want to work here?", "Cover letter: why do you want to join us?"}

\* The class-specific handling a built prompt shows.
Handling ==
    IF Built("recipe")
    THEN IF probe.out.userPrompt.id = "extract-user" THEN {"extraction"} ELSE {}
    ELSE probe.out.blocks \cap {"extraction", "coverLetter", "whyCompany"}

\* The handling of the first class matched, in the order DataExtraction,
\* CoverLetter, WhyCompany, General.
FirstMatch(by, q) ==
    IF q \in ExtractionAsked(by) THEN {"extraction"}
    ELSE IF q \in CoverLetterAsked THEN {"coverLetter"}
    ELSE IF q \in WhyCompanyAsked THEN {"whyCompany"}
    ELSE {}

----------------------------------------------------------------------------
\* C14: the temperature sent to the model backend (in tenths) is 1 for a
\* structured request whose cleaned question matches a data-extraction
\* pattern and 7 for every other structured request built by the bundled
\* recipe; a recipe result or a legacy payload without a numeric temperature
\* is sent with the default 7, and a numeric temperature is sent unchanged.
C14_TemperatureSent ==
    \A s \in Slots :
        LET r == reqs[s]
        IN  (r.route = "generate" /\ r.fetchCalls > 0) =>
                IF HasQuestion(r.body)
                THEN IF recipe = "bundled"
                     THEN r.sent.temperature =
                              IF r.body.question.id \in {"Email*:", "LinkedIn"}
                              THEN Num(1) ELSE Num(7)
                     ELSE r.sent.temperature =
                              IF IsNumber(r.built.temperature)
                              THEN r.built.temperature ELSE Num(7)
                ELSE r.sent.temperature =
                         IF IsNumber(r.body.temperature)
                         THEN r.body.temperature ELSE Num(7)

\* The question "LinkedIn" went to the backend with temperature 0.1.
C14_LinkedInSentCold ==
    \E s \in Slots :
        /\ reqs[s].fetchCalls > 0
        /\ HasQuestion(reqs[s].body)
        /\ reqs[s].body.question.id = "LinkedIn"
        /\ recipe = "bundled"
        /\ reqs[s].sent.temperature = Num(1)

----------------------------------------------------------------------------
\* The CV block of the prompt built, as pieces of cvText, and the cap M the
\* builder applied (by the class of the question).
CvBlock ==
    IF Built("recipe")
    THEN HeadOf(probe.out.userPrompt.cv.len, probe.out.userPrompt.cv.len)
    ELSE probe.out.cv

CvCap ==
    LET extract == probe.input.question.id \in ExtractionAsked(probe.by)
    IN  IF Built("recipe")
        THEN IF extract THEN 2500 ELSE 6000
        ELSE IF extract THEN 2500 ELSE 8000

\* The head and tail cut of a text of n characters at cap M: the first
\* floor(0.6 M) characters, the marker, the last M - floor(0.6 M).
HeadAndTail(n, M) ==
    <<Piece(1, (6 * M) \div 10), Snip, Piece(n - (M - (6 * M) \div 10) + 1, n)>>

CutsCv(by) == Built(by) /\ probe.input.cvText.len > CvCap

\* C15 as stated: for every cvText longer than the cap M, the CV block in
\* the prompt is the first floor(0.6 M) characters, the middle-omitted
\* marker and the last M - floor(0.6 M) characters of cvText.
C15_HeadAndTailEverywhere ==
    (CutsCv("content script") \/ CutsCv("recipe"))
        => CvBlock = HeadAndTail(probe.input.cvText.len, CvCap)

\* What the two builders do with a cvText longer than the cap M:
\* getCvContext of the content script (M = 2500 for data extraction, 8000
\* otherwise) keeps the first floor(0.6 M) characters, the marker and the
\* last M - floor(0.6 M) characters; the bundled recipe keeps only the first
\* M characters (2500 or 6000), with no marker and no tail.
HeadAndTailInContentScriptOnly ==
    /\ CutsCv("content script")
        => CvBlock = HeadAndTail(probe.input.cvText.len, CvCap)
    /\ CutsCv("recipe") => CvBlock = <<Piece(1, CvCap)>>

\* C16: a cvText no longer than the cap is placed in the prompt exactly as
\* it is: one piece, all of it, no marker.
C16_ShortCvVerbatim ==
    ((Built("content script") \/ Built("recipe")) /\ probe.input.cvText.len <= CvCap)
        => CvBlock = <<Piece(1, probe.input.cvText.len)>>

\* A CV exactly as long as the cap went into a prompt whole.
C16_CvAtCapVerbatim ==
    /\ Built("content script")
    /\ probe.input.cvText.len = 8000
    /\ probe.out.cv = <<Piece(1, 8000)>>

----------------------------------------------------------------------------
\* C17: for a valid structured input (question non-empty, cvText of 5
\* characters or more, the other fields of any length) buildPrompts returns
\* a systemPrompt of 10 to 30000 characters and a userPrompt of 10 to 120000
\* characters, so that the request is never refused with 413.
C17_RecipePromptsInRange ==
    (/\ Built("recipe")
     /\ probe.input.question.len > 0
     /\ probe.input.cvText.len >= 5)
        => /\ ~Threw(probe.out)
           /\ ValidateSizes(probe.out.systemPrompt, probe.out.userPrompt) = 0

\* What holds of the sizes: the systemPrompt is always in range and the
\* userPrompt never too short; the userPrompt exceeds 120000 characters only
\* when the uncapped fields (question, jobTitle, company, requirement
\* entries) are long, the CV and the job description never adding more than
\* their caps.
RecipePromptsInRangeForShortQuestions ==
    (Built("recipe") /\ ~Threw(probe.out))
        => /\ probe.out.systemPrompt.len \in 10..30000
           /\ probe.out.userPrompt.len >= 10
           /\ probe.input.question.len <= 100000 => probe.out.userPrompt.len <= 120000

----------------------------------------------------------------------------
\* The length target a built prompt carries.
Target == IF Built("recipe") THEN probe.out.userPrompt.target ELSE probe.out.target

\* The prompt built is a narrative one (not the extraction prompt).
Narrative ==
    /\ probe.by # "none"
    /\ probe.by = "shared" \/ probe.input.question.id \notin ExtractionAsked(probe.by)

\* The targets as the claim lists them; any other length counts as medium.
WordsFor(coverLetter, length) ==
    IF coverLetter
    THEN IF length = Str("short") THEN "150-220 words"
         ELSE IF length = Str("long") THEN "350-500 words"
         ELSE "250-350 words"
    ELSE IF length = Str("short") THEN "50-80 words"
         ELSE IF length = Str("long") THEN "200-300 words"
         ELSE "100-150 words"

\* C18: the length target in the prompt is a function of the question class
\* and the requested length: 150-220 / 250-350 / 350-500 words for a cover
\* letter, 50-80 / 100-150 / 200-300 words for any other narrative question,
\* a missing or unknown length counting as medium; a cover-letter prompt
\* carries the "Dear" greeting requirement.
C18_TargetByClassAndLength ==
    Narrative =>
        LET coverLetter == probe.input.question.id \in CoverLetterAsked
        IN  /\ Target = WordsFor(coverLetter, probe.input.length)
            /\ coverLetter => (~Built("recipe") /\ "Dear" \in probe.out.blocks)

\* What holds of the targets: the content script and the shared
\* PromptBuilder follow the table, and require the greeting, for a length
\* that is missing, short, medium, long or a word like "huge"; the bundled
\* recipe gives every narrative question the 50-80 / 100-150 / 200-300 scale.
TargetByClassOutsideRecipe ==
    (Narrative /\ probe.input.length # Str("constructor")) =>
        LET coverLetter == probe.input.question.id \in CoverLetterAsked
        IN  IF Built("recipe")
            THEN Target = WordsFor(FALSE, probe.input.length)
            ELSE /\ Target = WordsFor(coverLetter, probe.input.length)
                 /\ coverLetter => "Dear" \in probe.out.blocks

----------------------------------------------------------------------------
\* C19: the background worker sends no question, CV text, job context or
\* answer, nor any excerpt of one, anywhere but to the proxy while it
\* handles CALL_API.
C19_WorkerTellsOnlyProxy ==
    \A c \in Calls :
        worker.calls[c].sinks \cap {"payload.question", "result.answer.slice(0, 120)"} = {}

----------------------------------------------------------------------------
----------------------------------------------------------------------------
(* Claims about the provider fallback, checked under SpecFallback *)

\* The names of the chain, in order.
ChainNames == [i \in 1..Len(fallback.chain) |-> fallback.chain[i].name]

\* "p1: e1; p2: e2; ..." for the first n providers of the chain and the
\* errors they gave.
RECURSIVE FailuresUpTo(_)
FailuresUpTo(n) ==
    IF n = 0 THEN ""
    ELSE (IF n = 1 THEN "" ELSE FailuresUpTo(n - 1) \o "; ")
            \o ChainNames[n] \o ": " \o fallback.replies[n].error

\* C30: generateWithFallback calls the providers in chain order, one at a
\* time; it returns the result of the first provider that succeeds, tagged
\* with that provider's name, and calls no provider after it; it throws
\* only after every provider of the chain has been tried and has failed,
\* and the error lists each provider's failure in chain order.
C30_FirstSuccessInChainOrder ==
    LET f == fallback
        tried == Len(f.called)
        answered == Len(f.replies)
    IN  /\ tried <= Len(f.chain)
        /\ f.called = SubSeq(ChainNames, 1, tried)
        /\ answered = IF f.pc = "awaiting" THEN tried - 1 ELSE tried
        /\ \A i \in 1..answered : f.replies[i].ok => (i = answered /\ f.pc = "returned")
        /\ f.pc = "returned" =>
              /\ f.replies[answered].ok
              /\ f.result = [answer |-> f.replies[answered].answer,
                             provider |-> ChainNames[answered]]
        /\ f.pc = "threw" =>
              /\ answered = Len(f.chain)
              /\ \A i \in 1..answered : ~f.replies[i].ok
              /\ f.thrown = "All providers failed: " \o FailuresUpTo(answered)
        /\ (f.pc \in {"idle", "awaiting"}) => (f.thrown = "" /\ f.result.provider = "")

\* C30 witness: the first two providers of a chain of three or more failed,
\* the third answered, and its result was returned under its name.
C30_ThirdProviderAnswered ==
    /\ fallback.pc = "returned"
    /\ Len(fallback.chain) >= 3
    /\ Len(fallback.called) = 3
    /\ ~fallback.replies[1].ok
    /\ ~fallback.replies[2].ok
    /\ fallback.result.provider = fallback.chain[3].name
    /\ fallback.result.answer = "answer"

\* Every provider of a chain of three failed and the combined error was
\* thrown.
AllThreeFailed ==
    /\ fallback.pc = "threw"
    /\ fallback.chain = <<[name |-> "groq"], [name |-> "ollama"], [name |-> "openai"]>>
    /\ fallback.thrown =
          "All providers failed: groq: fetch failed; ollama: Rate limit reached; openai: fetch failed"
====
